---------------------------- MODULE Spec2Model ----------------------------
(***************************************************************************)
(* The simulation-and-judge loop of lookfor-demo-brand:                    *)
(*   SimulationEngine  (src/src/mas/simulation/index.ts)                   *)
(*   JudgeTeam         (src/src/api/simulation.ts)                         *)
(*                                                                         *)
(* JavaScript strings are sequences of one-letter strings, so that         *)
(* toLowerCase, includes and join are computed and not assumed.  An        *)
(* optional value (T | undefined) is a sequence of length 0 or 1.          *)
(* Values that are only stored and never read back by this code (event     *)
(* timestamps and descriptions, executedAt, scenario.duration, startedAt)  *)
(* are left out; the clock readings the code branches on (totalDuration,   *)
(* Date.now() in the session id) are modelled.  The names of agents, tools *)
(* and intents, which the code never takes apart, are whole strings.       *)
(***************************************************************************)
EXTENDS Integers, Sequences, FiniteSets, TLC

VARIABLES
  scenarios,     \* SimulationEngine.scenarios: id -> optional scenario object
  scenOrder,     \* insertion order of the scenarios Map
  timelines,     \* SimulationEngine.timelines: id -> optional timeline
  verdicts,      \* SimulationEngine.verdicts: id -> optional verdict
  verdictOrder,  \* insertion order of the verdicts Map
  runs,          \* the runSimulation activations suspended at `await executor`
  sessions,      \* JudgeTeam.sessions: id -> optional session
  sessOrder,     \* insertion order of the sessions Map
  judges,        \* JudgeTeam.judges: the roster
  integrationChecks, \* JudgeTeam.integrationChecks
  now,           \* Date.now()
  nRegister,     \* registerScenario calls made so far
  nRun,          \* runSimulation calls made so far
  nJudge,        \* judge calls (judgeScenario and the JudgeTeam's) made so far
  batch,         \* the POST /run-all handler in progress, if any
  averaging      \* a calculateAverageDimensions call on its own: the verdicts
                 \* it is given and the improvement areas made of its result

vars == <<scenarios, scenOrder, timelines, verdicts, verdictOrder, runs,
          sessions, sessOrder, judges, integrationChecks, now, nRegister,
          nRun, nJudge, batch, averaging>>

(***************************************************************************)
(* Bounds of the model.                                                    *)
(***************************************************************************)
MaxInputs == 2      \* longest scenario.inputs
MaxInFlight == 2    \* runSimulation activations suspended at the same time
MaxRegister == 2    \* registerScenario calls in one behaviour of Spec
MaxRun == 2         \* runSimulation calls in one behaviour of Spec
MaxRegisterE == 1   \* registerScenario calls in one behaviour of SpecEngine
MaxRunE == 2        \* runSimulation calls in one behaviour of SpecEngine
MaxClock == 2       \* largest reading of Date.now()
MaxJudge == 3       \* judge calls in one behaviour of Spec
MaxRegisterB == 3   \* registerScenario calls in one behaviour of SpecBatch
MaxRegisterA == 2   \* registerScenario calls in one behaviour of SpecApi
MaxRunA == 2        \* runSimulation calls in one behaviour of SpecApi
MaxJudgeA == 4      \* judge calls in one behaviour of SpecApi
MaxRunB == 2        \* runSimulation calls beside the batch's in SpecBatch
MaxRegisterS == 2   \* registerScenario calls in one behaviour of SpecScene
MaxRunS == 2        \* runSimulation calls in one behaviour of SpecScene
MaxRegisterP == 2   \* registerScenario calls in one behaviour of SpecPair
MaxRunP == 2        \* runSimulation calls in one behaviour of SpecPair
MaxJudgeP == 2      \* judgeScenario calls in one behaviour of SpecPair
MaxVerdicts == 41   \* longest verdict list given to calculateAverageDimensions

ScenarioIds == {"S1", "S2", "SCENE-001"}
SessionIds == 1..MaxClock

None == <<>>
Some(x) == <<x>>
IsSome(o) == o # <<>>
Get(o) == o[1]

Max(a, b) == IF a >= b THEN a ELSE b
Min(a, b) == IF a <= b THEN a ELSE b

(***************************************************************************)
(* Strings.                                                                *)
(***************************************************************************)
Lower(c) ==
  CASE c = "A" -> "a" [] c = "B" -> "b" [] c = "C" -> "c" [] c = "D" -> "d"
    [] c = "E" -> "e" [] c = "F" -> "f" [] c = "G" -> "g" [] c = "H" -> "h"
    [] c = "I" -> "i" [] c = "J" -> "j" [] c = "K" -> "k" [] c = "L" -> "l"
    [] c = "M" -> "m" [] c = "N" -> "n" [] c = "O" -> "o" [] c = "P" -> "p"
    [] c = "Q" -> "q" [] c = "R" -> "r" [] c = "S" -> "s" [] c = "T" -> "t"
    [] c = "U" -> "u" [] c = "V" -> "v" [] c = "W" -> "w" [] c = "X" -> "x"
    [] c = "Y" -> "y" [] c = "Z" -> "z" [] OTHER -> c

\* toLowerCase left out: the comparison becomes case-sensitive
toLowerCaseIdentity(s) == s

toLowerCase(s) == [i \in 1..Len(s) |-> Lower(s[i])]

\* a search that looks at the start of hay only
includesAtStart(hay, needle) ==
  Len(needle) <= Len(hay) /\ SubSeq(hay, 1, Len(needle)) = needle

\* String.prototype.includes: needle occurs at some position of hay
includes(hay, needle) ==
  \E i \in 1..(Len(hay) - Len(needle) + 1) :
    SubSeq(hay, i, i + Len(needle) - 1) = needle

RECURSIVE join(_, _)
\* Array.prototype.join
join(list, sep) ==
  IF Len(list) = 0 THEN <<>>
  ELSE IF Len(list) = 1 THEN list[1]
  ELSE list[1] \o sep \o join(Tail(list), sep)

CommaSpace == <<",", " ">>

\* the customer message of step i: i letters, so that every step differs
Msg(i) == [j \in 1..i |-> "m"]

\* an input without the optional expectedIntent and expectedAgent
ScenarioInput(i) ==
  [step |-> i, customerMessage |-> Msg(i), expectedIntent |-> None,
   expectedAgent |-> None]

\* a scenario as the callers build it: {...s, status: 'pending'}, with no
\* agent expected and toolsCalled absent
ScenarioDef(id, n, esc, needles) ==
  [id |-> id,
   inputs |-> [i \in 1..n |-> ScenarioInput(i)],
   expectedOutcome |-> [escalated |-> esc, agentSequence |-> <<>>,
                        toolsCalled |-> None,
                        finalMessageContains |-> needles],
   status |-> "pending",
   actualOutcome |-> None]

(***************************************************************************)
(* The values the environment supplies.                                    *)
(***************************************************************************)
\* finalMessageContains: absent, [], ['ab'], ['B', 'a']
NeedleOptions ==
  {None, Some(<<>>), Some(<< <<"a", "b">> >>), Some(<< <<"B">>, <<"a">> >>)}

\* executor replies: 'Ab', 'b', ''
ReplyMessages == {<<"A", "b">>, <<"b">>, <<>>}

\* tracer.getTrace(sessionId): undefined, or a trace with that many events
TraceOptions == {None, Some(3), Some(4), Some(10), Some(11)}

\* endTime - startTime, in ms
Durations == {5000, 5001}

\* SpecEngine has no judge to read totalDuration: one value
EngineDurations == {5000}

EngineDefs ==
  {ScenarioDef(id, n, esc, nd) :
     id \in {"S1"}, n \in 0..MaxInputs, esc \in BOOLEAN, nd \in NeedleOptions}

\* the scenario catalogue of Spec: two inputs, no escalation expected, two
\* needles (the shape of SCENE-001); one input, escalation expected (the
\* shape of SCENE-006, without needles); no inputs, escalation expected
SpecDefs ==
  {ScenarioDef("S1", 2, FALSE, Some(<< <<"B">>, <<"a">> >>)),
   ScenarioDef("S2", 1, TRUE, None),
   ScenarioDef("S2", 0, TRUE, Some(<<>>))}

SpecReplies == {<<"A", "b">>, <<"b">>}
SpecTraces == {None}
\* the expectations a scenario may carry beside its escalation flag and its
\* needles: expectedOutcome.agentSequence, expectedOutcome.toolsCalled, and
\* the expectedIntent and expectedAgent of its inputs
ExpectationOptions ==
  {[agentSequence |-> <<>>, toolsCalled |-> None,
    expectedIntent |-> None, expectedAgent |-> None],
   [agentSequence |-> <<"order-agent">>, toolsCalled |-> None,
    expectedIntent |-> Some("ORDER_STATUS"), expectedAgent |-> None],
   [agentSequence |-> <<"order-agent", "subscription-agent">>,
    toolsCalled |-> Some(<<"get_order", "get_tracking">>),
    expectedIntent |-> Some("ORDER_MODIFY"),
    expectedAgent |-> Some("order-agent")]}

\* the scenario with these expectations in place of its own
withExpectations(scenario, x) ==
  [scenario EXCEPT
     !.inputs = [i \in 1..Len(scenario.inputs) |->
                   [scenario.inputs[i] EXCEPT
                      !.expectedIntent = x.expectedIntent,
                      !.expectedAgent = x.expectedAgent]],
     !.expectedOutcome = [scenario.expectedOutcome EXCEPT
                            !.agentSequence = x.agentSequence,
                            !.toolsCalled = x.toolsCalled]]

\* the scenarios of SpecPair: under each of two ids, one or two inputs, either
\* escalation flag, the needle 'ab', and each of the expectations above
PairDefs ==
  {withExpectations(ScenarioDef(id, n, esc, Some(<< <<"a", "b">> >>)), x) :
     id \in {"S1", "S2"}, n \in 1..MaxInputs, esc \in BOOLEAN,
     x \in ExpectationOptions}

\* what the engine reads of a scenario: everything but its id and the
\* expectations above
readParts(scenario) ==
  [inputs |-> [i \in 1..Len(scenario.inputs) |->
                 [step |-> scenario.inputs[i].step,
                  customerMessage |-> scenario.inputs[i].customerMessage]],
   escalated |-> scenario.expectedOutcome.escalated,
   finalMessageContains |-> scenario.expectedOutcome.finalMessageContains]

\* the traces the tracer may hold in SpecPair
PairTraces == {None, Some(11)}

\* PRESENTATION_SCENARIOS[0], as registerScenario receives it
SCENE_001 ==
  [id |-> "SCENE-001",
   inputs |->
     << [step |-> 1, customerMessage |->
           <<"H", "i", ",", " ", "I", " ", "p", "l", "a", "c", "e", "d", " ",
              "a", "n", " ", "o", "r", "d", "e", "r", " ", "l", "a", "s",
              "t", " ", "w", "e", "e", "k", ".", " ", "C", "a", "n", " ",
              "y", "o", "u", " ", "t", "e", "l", "l", " ", "m", "e", " ",
              "w", "h", "e", "r", "e", " ", "i", "t", " ", "i", "s", "?">>,
         expectedIntent |-> Some("ORDER_STATUS"), expectedAgent |-> None],
        [step |-> 2, customerMessage |->
           <<"T", "h", "e", " ", "o", "r", "d", "e", "r", " ", "n", "u", "m",
              "b", "e", "r", " ", "i", "s", " ", "#", "1", "2", "3", "4",
              "5", "6", "7">>,
         expectedIntent |-> Some("ORDER_STATUS"), expectedAgent |-> None] >>,
   expectedOutcome |->
     [escalated |-> FALSE,
      agentSequence |-> <<"order-agent">>,
      toolsCalled |-> Some(<<"get_order", "get_tracking">>),
      finalMessageContains |->
        Some(<< <<"o", "r", "d", "e", "r">>,
                <<"s", "t", "a", "t", "u", "s">> >>)],
   status |-> "pending",
   actualOutcome |-> None]

\* 'I can help with your order status'
OrderStatusReply ==
  <<"I", " ", "c", "a", "n", " ", "h", "e", "l", "p", " ", "w", "i", "t",
     "h", " ", "y", "o", "u", "r", " ", "o", "r", "d", "e", "r", " ", "s",
     "t", "a", "t", "u", "s">>

\* 'How can I help you today?'
DefaultReply ==
  <<"H", "o", "w", " ", "c", "a", "n", " ", "I", " ", "h", "e", "l", "p",
     " ", "y", "o", "u", " ", "t", "o", "d", "a", "y", "?">>

\* the replies of the responders SCENE-001 is run with
SceneReplies == {OrderStatusReply, DefaultReply}

(***************************************************************************)
(* SimulationEngine                                                        *)
(***************************************************************************)
getScenarios == [i \in 1..Len(scenOrder) |-> Get(scenarios[scenOrder[i]])]

getVerdicts == [i \in 1..Len(verdictOrder) |-> Get(verdicts[verdictOrder[i]])]

RECURSIVE allNeedlesFound(_, _)
\* the for loop of evaluateScenario: false at the first needle not found
allNeedlesFound(needles, finalMessage) ==
  IF needles = <<>> THEN TRUE
  ELSE IF ~includes(toLowerCase(finalMessage), toLowerCase(Head(needles)))
       THEN FALSE
       ELSE allNeedlesFound(Tail(needles), finalMessage)
\* an evaluation that also compares the agent sequences
evaluateScenarioChecksAgents(scenario) ==
  IF ~IsSome(scenario.actualOutcome) THEN FALSE
  ELSE
    LET expected == scenario.expectedOutcome
        actual == Get(scenario.actualOutcome)
    IN IF expected.escalated # actual.escalated THEN FALSE
       ELSE IF expected.agentSequence # actual.agentSequence THEN FALSE
       ELSE IF IsSome(expected.finalMessageContains)
            THEN allNeedlesFound(Get(expected.finalMessageContains),
                                 actual.finalMessage)
            ELSE TRUE

evaluateScenario(scenario) ==
  IF ~IsSome(scenario.actualOutcome) THEN FALSE
  ELSE
    LET expected == scenario.expectedOutcome
        actual == Get(scenario.actualOutcome)
    IN IF expected.escalated # actual.escalated THEN FALSE
       ELSE IF IsSome(expected.finalMessageContains)
            THEN allNeedlesFound(Get(expected.finalMessageContains),
                                 actual.finalMessage)
            ELSE TRUE

\* actual.trace?.timeline.length || 0
eventCountOf(trace) == IF IsSome(trace) THEN Get(trace) ELSE 0

\* calculateQualityScore without the final clamp
calculateQualityScoreNoClamp(scenario, actual) ==
  LET s1 == IF actual.escalated /\ ~scenario.expectedOutcome.escalated
            THEN 100 - 30 ELSE 100
      s2 == IF ~actual.escalated /\ scenario.expectedOutcome.escalated
            THEN s1 - 40 ELSE s1
      eventCount == eventCountOf(actual.trace)
  IN IF eventCount <= 3 THEN s2 + 5
     ELSE IF eventCount > 10 THEN s2 - 10 ELSE s2

calculateQualityScore(scenario, actual) ==
  LET s0 == 100
      s1 == IF actual.escalated /\ ~scenario.expectedOutcome.escalated
            THEN s0 - 30 ELSE s0
      s2 == IF ~actual.escalated /\ scenario.expectedOutcome.escalated
            THEN s1 - 40 ELSE s1
      eventCount == eventCountOf(actual.trace)
      s3 == IF eventCount <= 3 THEN s2 + 5
            ELSE IF eventCount > 10 THEN s2 - 10 ELSE s2
  IN Max(0, Min(100, s3))

\* the start of a run resetting the status instead
StartStatusPending == "pending"

\* scenario.status = 'running' at the start of a run
StartStatus == "running"

\* the status left as the start of the run set it
StatusOfUnset(scenario) == scenario.status

\* scenario.status = evaluateScenario(scenario) ? 'passed' : 'failed'
StatusOf(scenario) == IF evaluateScenario(scenario) THEN "passed" ELSE "failed"

messageEvent(input) ==
  [type |-> "message",
   data |-> [step |-> input.step, message |-> input.customerMessage]]
\* a reply event that is typed 'decision' whatever the reply
replyEventAlwaysDecision(escalated) ==
  [type |-> "decision", data |-> [escalated |-> escalated]]

replyEvent(escalated) ==
  [type |-> IF escalated THEN "escalation" ELSE "decision",
   data |-> [escalated |-> escalated]]

\* the loop without its `if (escalated) break`
LoopEndsNoBreak(run, escalated) == Len(run.calls) = Len(run.inputs)

\* `if (escalated) break`, or the for loop has run out of inputs
LoopEnds(run, escalated) == escalated \/ Len(run.calls) = Len(run.inputs)

RemoveAt(seq, k) == SubSeq(seq, 1, k - 1) \o SubSeq(seq, k + 1, Len(seq))
\* a registration that drops the timeline stored under the id
registerScenarioDropsTimeline(s) ==
  /\ nRegister' = nRegister + 1
  /\ scenarios' = [scenarios EXCEPT ![s.id] = Some(s)]
  /\ scenOrder' = IF IsSome(scenarios[s.id]) THEN scenOrder
                  ELSE Append(scenOrder, s.id)
  /\ runs' = [k \in 1..Len(runs) |->
                IF runs[k].id = s.id THEN [runs[k] EXCEPT !.detached = TRUE]
                ELSE runs[k]]
  /\ timelines' = [timelines EXCEPT ![s.id] = None]
  /\ UNCHANGED <<verdicts, verdictOrder, sessions, sessOrder, judges,
                 integrationChecks, averaging, now, nRun, nJudge>>

\* a registration that keeps the scenario already stored under the id
registerScenarioKeepsFirst(s) ==
  /\ nRegister' = nRegister + 1
  /\ scenarios' = IF IsSome(scenarios[s.id]) THEN scenarios
                  ELSE [scenarios EXCEPT ![s.id] = Some(s)]
  /\ scenOrder' = IF IsSome(scenarios[s.id]) THEN scenOrder
                  ELSE Append(scenOrder, s.id)
  /\ UNCHANGED <<runs, timelines, verdicts, verdictOrder, sessions, sessOrder,
                 judges, integrationChecks, averaging, now, nRun, nJudge>>

\* registerScenario: this.scenarios.set(scenario.id, scenario).  A run that is
\* suspended on this id keeps the object it looked up, which is now out of
\* the Map: it is marked detached.
registerScenario(s) ==
  /\ nRegister' = nRegister + 1
  /\ scenarios' = [scenarios EXCEPT ![s.id] = Some(s)]
  /\ scenOrder' = IF IsSome(scenarios[s.id]) THEN scenOrder
                  ELSE Append(scenOrder, s.id)
  /\ runs' = [k \in 1..Len(runs) |->
                IF runs[k].id = s.id THEN [runs[k] EXCEPT !.detached = TRUE]
                ELSE runs[k]]
  /\ UNCHANGED <<timelines, verdicts, verdictOrder, sessions, sessOrder,
                 judges, integrationChecks, averaging, now, nRun, nJudge>>

\* the object a suspended run holds.  While it is the one stored under its
\* id, that one; afterwards an object nothing else reads, whose status and
\* actualOutcome the run overwrites before it reads them.
HeldScenario(run) ==
  IF run.detached
  THEN [id |-> run.id, inputs |-> run.inputs,
        expectedOutcome |-> run.expectedOutcome,
        status |-> StartStatus, actualOutcome |-> None]
  ELSE Get(scenarios[run.id])

\* the end of a run that keeps a timeline already stored under the id
FinishKeepsFirstTimeline(scenario, inMap, events, escalated, finalMessage, trace, duration) ==
  LET agentSequence == <<>>
      toolsCalled == <<>>
      actual == [escalated |-> escalated, agentSequence |-> agentSequence,
                 toolsCalled |-> toolsCalled, trace |-> trace,
                 finalMessage |-> finalMessage]
      finalState == [resolved |-> ~escalated,
                     escalated |-> escalated,
                     toolsUsed |-> toolsCalled,
                     agentsInvolved |-> agentSequence,
                     totalDuration |-> duration,
                     qualityScore |-> calculateQualityScore(scenario, actual)]
      timeline == [scenarioId |-> scenario.id, events |-> events,
                   finalState |-> finalState]
      withOutcome == [scenario EXCEPT !.actualOutcome = Some(actual)]
      done == [withOutcome EXCEPT !.status = StatusOf(withOutcome)]
  IN /\ scenarios' = IF inMap THEN [scenarios EXCEPT ![scenario.id] = Some(done)]
                     ELSE scenarios
     /\ timelines' = IF IsSome(timelines[scenario.id]) THEN timelines
                     ELSE [timelines EXCEPT ![scenario.id] = Some(timeline)]

\* lines 158-188 of runSimulation: the state after the loop has ended with
\* these events, this last reply, this trace and this elapsed time.  The
\* arrays agentSequence and toolsCalled of lines 124-125 are still as they
\* were created: nothing pushes to them.
\* `scenario` is the object the run holds; `inMap` says whether it is still
\* the object stored under its id.
Finish(scenario, inMap, events, escalated, finalMessage, trace, duration) ==
  LET agentSequence == <<>>
      toolsCalled == <<>>
      actual == [escalated |-> escalated, agentSequence |-> agentSequence,
                 toolsCalled |-> toolsCalled, trace |-> trace,
                 finalMessage |-> finalMessage]
      finalState == [resolved |-> ~escalated,
                     escalated |-> escalated,
                     toolsUsed |-> toolsCalled,
                     agentsInvolved |-> agentSequence,
                     totalDuration |-> duration,
                     qualityScore |-> calculateQualityScore(scenario, actual)]
      timeline == [scenarioId |-> scenario.id, events |-> events,
                   finalState |-> finalState]
      withOutcome == [scenario EXCEPT !.actualOutcome = Some(actual)]
      done == [withOutcome EXCEPT !.status = StatusOf(withOutcome)]
  IN /\ scenarios' = IF inMap THEN [scenarios EXCEPT ![scenario.id] = Some(done)]
                     ELSE scenarios
     /\ timelines' = [timelines EXCEPT ![scenario.id] = Some(timeline)]

\* runSimulation up to its first await (or, with no inputs, to its end).
\* Traces and Durs are the values tracer.getTrace and the clock may give.
runSimulation(id, Traces, Durs) ==
  /\ IsSome(scenarios[id])
  /\ nRun' = nRun + 1
  /\ LET scenario == [Get(scenarios[id]) EXCEPT !.status = StartStatus]
     IN IF scenario.inputs = <<>>
        THEN /\ \E trace \in Traces, duration \in Durs :
                  Finish(scenario, TRUE, <<>>, FALSE, <<>>, trace, duration)
             /\ runs' = runs
        ELSE /\ scenarios' = [scenarios EXCEPT ![id] = Some(scenario)]
             /\ runs' = Append(runs,
                   [id |-> id, inputs |-> scenario.inputs,
                    expectedOutcome |-> scenario.expectedOutcome,
                    detached |-> FALSE,
                    calls |-> <<scenario.inputs[1].customerMessage>>,
                    events |-> <<messageEvent(scenario.inputs[1])>>])
             /\ timelines' = timelines
  /\ UNCHANGED <<scenOrder, verdicts, verdictOrder, sessions, sessOrder,
                 judges, integrationChecks, averaging, now, nRegister, nJudge>>

\* runSimulation on an id that is not registered: throws before any write
runSimulationNotFound(id) ==
  /\ ~IsSome(scenarios[id])
  /\ UNCHANGED vars

\* the executor's promise resolves for run k with {message, escalated}: the
\* rest of the loop body, and then the next iteration up to its await, or
\* the code after the loop
executorReturns(k, message, escalated, Traces, Durs) ==
  /\ k \in 1..Len(runs)
  /\ LET run == runs[k]
         events == Append(run.events, replyEvent(escalated))
     IN IF LoopEnds(run, escalated)
        THEN /\ \E trace \in Traces, duration \in Durs :
                  Finish(HeldScenario(run), ~run.detached, events, escalated,
                         message, trace, duration)
             /\ runs' = RemoveAt(runs, k)
        ELSE LET input == run.inputs[Len(run.calls) + 1]
             IN /\ runs' = [runs EXCEPT ![k] =
                       [run EXCEPT !.calls = Append(run.calls, input.customerMessage),
                                   !.events = Append(events, messageEvent(input))]]
                /\ UNCHANGED <<scenarios, timelines>>
  /\ UNCHANGED <<scenOrder, verdicts, verdictOrder, sessions, sessOrder,
                 judges, integrationChecks, averaging, now, nRegister, nRun,
                 nJudge>>

\* the executor's promise rejects for run k: the exception leaves
\* runSimulation, nothing after the await runs
executorThrows(k) ==
  /\ k \in 1..Len(runs)
  /\ runs' = RemoveAt(runs, k)
  /\ UNCHANGED <<scenarios, scenOrder, timelines, verdicts, verdictOrder,
                 sessions, sessOrder, judges, integrationChecks, averaging,
                 now, nRegister, nRun, nJudge>>

\* Math.round(sum / n) for sum >= 0 and n > 0: the nearest integer, a tie
\* going up
roundDiv(sum, n) == (2 * sum + n) \div (2 * n)

RECURSIVE sumOf(_)
\* the sum of a list of numbers, as the `+=` loops compute it
sumOf(numbers) ==
  IF numbers = <<>> THEN 0 ELSE Head(numbers) + sumOf(Tail(numbers))

\* timeline.events.filter(e => e.type === 'routing').length
routingCount(timeline) ==
  LET isRouting(e) == e.type = "routing" IN Len(SelectSeq(timeline.events, isRouting))

\* scenario.actualOutcome?.escalated, undefined being falsy
actuallyEscalated(scenario) ==
  IsSome(scenario.actualOutcome) /\ Get(scenario.actualOutcome).escalated
\* a verdict that takes 40 points of efficiency from a slow run
verdictOfSlowCosts40(scenario, timeline) ==
  LET accuracy == IF scenario.status = "failed" THEN 40 ELSE 100
      efficiency == IF timeline.finalState.totalDuration > 5000
                    THEN 100 - 40 ELSE 100
      appropriateness == IF routingCount(timeline) > 3 THEN 85 - 30 ELSE 85
      escalationHandling ==
        IF scenario.expectedOutcome.escalated /\ ~actuallyEscalated(scenario)
        THEN 20 ELSE 90
  IN [scenarioId |-> scenario.id,
      overallScore |->
        roundDiv(accuracy + efficiency + appropriateness + escalationHandling, 4),
      dimensions |-> [accuracy |-> accuracy, efficiency |-> efficiency,
                      appropriateness |-> appropriateness,
                      escalationHandling |-> escalationHandling]]

\* a verdict whose overallScore is the mean cut down to an integer
verdictOfFloorMean(scenario, timeline) ==
  LET accuracy == IF scenario.status = "failed" THEN 40 ELSE 100
      efficiency == IF timeline.finalState.totalDuration > 5000
                    THEN 100 - 20 ELSE 100
      appropriateness == IF routingCount(timeline) > 3 THEN 85 - 30 ELSE 85
      escalationHandling ==
        IF scenario.expectedOutcome.escalated /\ ~actuallyEscalated(scenario)
        THEN 20 ELSE 90
  IN [scenarioId |-> scenario.id,
      overallScore |->
        (accuracy + efficiency + appropriateness + escalationHandling) \div 4,
      dimensions |-> [accuracy |-> accuracy, efficiency |-> efficiency,
                      appropriateness |-> appropriateness,
                      escalationHandling |-> escalationHandling]]

\* the verdict judgeScenario builds from a scenario and its timeline
verdictOf(scenario, timeline) ==
  LET accuracy == IF scenario.status = "failed" THEN 40 ELSE 100
      efficiency == IF timeline.finalState.totalDuration > 5000
                    THEN 100 - 20 ELSE 100
      appropriateness == IF routingCount(timeline) > 3 THEN 85 - 30 ELSE 85
      escalationHandling ==
        IF scenario.expectedOutcome.escalated /\ ~actuallyEscalated(scenario)
        THEN 20 ELSE 90
  IN [scenarioId |-> scenario.id,
      overallScore |->
        roundDiv(accuracy + efficiency + appropriateness + escalationHandling, 4),
      dimensions |-> [accuracy |-> accuracy, efficiency |-> efficiency,
                      appropriateness |-> appropriateness,
                      escalationHandling |-> escalationHandling]]

\* judgeScenario throws unless the scenario and its timeline are stored
canJudge(id) == IsSome(scenarios[id]) /\ IsSome(timelines[id])

\* the verdict store after judgeScenario(id) has returned
judged(store, id) ==
  [verdicts |-> [store.verdicts EXCEPT ![id] =
                   Some(verdictOf(Get(scenarios[id]), Get(timelines[id])))],
   verdictOrder |-> IF IsSome(store.verdicts[id]) THEN store.verdictOrder
                    ELSE Append(store.verdictOrder, id)]

\* SimulationEngine.judgeScenario called on its own
judgeScenario(id) ==
  /\ canJudge(id)
  /\ LET store == judged([verdicts |-> verdicts, verdictOrder |-> verdictOrder], id)
     IN /\ verdicts' = store.verdicts
        /\ verdictOrder' = store.verdictOrder
  /\ nJudge' = nJudge + 1
  /\ UNCHANGED <<scenarios, scenOrder, timelines, runs, sessions, sessOrder,
                 judges, integrationChecks, averaging, now, nRegister, nRun>>

judgeScenarioThrows(id) ==
  /\ ~canJudge(id)
  /\ UNCHANGED vars

(***************************************************************************)
(* JudgeTeam                                                               *)
(***************************************************************************)
\* the initializer of JudgeTeam.judges; a weight is in hundredths
JudgeAgents ==
  << [id |-> "judge-accuracy", name |-> "Accuracy Judge", role |-> "accuracy",
      weight |-> 30],
     [id |-> "judge-safety", name |-> "Safety Judge", role |-> "safety",
      weight |-> 25],
     [id |-> "judge-efficiency", name |-> "Efficiency Judge",
      role |-> "efficiency", weight |-> 15],
     [id |-> "judge-experience", name |-> "UX Judge", role |-> "experience",
      weight |-> 20],
     [id |-> "judge-integration", name |-> "Integration Judge",
      role |-> "integration", weight |-> 10] >>

newSession(id) ==
  [id |-> id, status |-> "active", scenariosJudged |-> <<>>,
   consensusReached |-> FALSE, finalVerdict |-> None, completedAt |-> None]

\* a startSession that also enrols a judge
startSessionAddsJudge ==
  /\ sessions' = [sessions EXCEPT ![now] = Some(newSession(now))]
  /\ sessOrder' = IF IsSome(sessions[now]) THEN sessOrder ELSE Append(sessOrder, now)
  /\ judges' = Append(judges, [id |-> "judge-session", name |-> "Session Judge",
                               role |-> "session", weight |-> 0])
  /\ nJudge' = nJudge + 1
  /\ UNCHANGED <<scenarios, scenOrder, timelines, verdicts, verdictOrder, runs,
                 integrationChecks, averaging, now, nRegister, nRun>>

\* startSession: the id is `judge_${Date.now()}`, so a second call at the same
\* clock reading stores its session over the first
startSession ==
  /\ sessions' = [sessions EXCEPT ![now] = Some(newSession(now))]
  /\ sessOrder' = IF IsSome(sessions[now]) THEN sessOrder ELSE Append(sessOrder, now)
  /\ nJudge' = nJudge + 1
  /\ UNCHANGED <<scenarios, scenOrder, timelines, verdicts, verdictOrder, runs,
                 judges, integrationChecks, averaging, now, nRegister, nRun>>

\* the clock advances
Tick ==
  /\ now < MaxClock
  /\ now' = now + 1
  /\ UNCHANGED <<scenarios, scenOrder, timelines, verdicts, verdictOrder, runs,
                 sessions, sessOrder, judges, integrationChecks, averaging,
                 nRegister, nRun, nJudge>>

getLatestSession ==
  IF sessOrder = <<>> THEN None ELSE sessions[sessOrder[Len(sessOrder)]]

\* the batch without its filter: every registered scenario
executedScenariosUnfiltered == scenOrder

\* scenarios.filter(s => s.status !== 'pending'), as ids
executedScenarios ==
  LET executed(id) == Get(scenarios[id]).status # "pending"
  IN SelectSeq(scenOrder, executed)

RECURSIVE judgeLoop(_, _)
\* the for loop of judgeAllScenarios over the ids still to visit: a scenario
\* judgeScenario throws for is logged and skipped
judgeLoop(ids, acc) ==
  IF ids = <<>> THEN acc
  ELSE LET id == Head(ids)
       IN IF canJudge(id)
          THEN LET store == judged(acc, id)
               IN judgeLoop(Tail(ids),
                            [verdicts |-> store.verdicts,
                             verdictOrder |-> store.verdictOrder,
                             scenariosJudged |-> Append(acc.scenariosJudged, id)])
          ELSE judgeLoop(Tail(ids), acc)

judgeAllScenarios(sessionId) ==
  /\ IsSome(sessions[sessionId])
  /\ LET session == Get(sessions[sessionId])
         end == judgeLoop(executedScenarios,
                          [verdicts |-> verdicts, verdictOrder |-> verdictOrder,
                           scenariosJudged |-> session.scenariosJudged])
     IN /\ verdicts' = end.verdicts
        /\ verdictOrder' = end.verdictOrder
        /\ sessions' = [sessions EXCEPT ![sessionId] =
              Some([session EXCEPT !.scenariosJudged = end.scenariosJudged])]
  /\ nJudge' = nJudge + 1
  /\ UNCHANGED <<scenarios, scenOrder, timelines, runs, sessOrder, judges,
                 integrationChecks, averaging, now, nRegister, nRun>>

judgeAllScenariosNotFound(sessionId) ==
  /\ ~IsSome(sessions[sessionId])
  /\ UNCHANGED vars

RECURSIVE Gcd(_, _)
Gcd(a, b) == IF b = 0 THEN a ELSE Gcd(b, a % b)

\* passed / total without the `* 100`
passRateFraction(passed, total) ==
  IF total > 0
  THEN LET g == Gcd(passed, total)
       IN [num |-> passed \div g, den |-> total \div g]
  ELSE [num |-> 0, den |-> 1]

\* (passed / total) * 100, kept exact as a fraction in lowest terms
passRateOf(passed, total) ==
  IF total > 0
  THEN LET g == Gcd(passed * 100, total)
       IN [num |-> (passed * 100) \div g, den |-> total \div g]
  ELSE [num |-> 0, den |-> 1]

\* passRate < n
RateBelow(rate, n) == rate.num < n * rate.den

RECURSIVE issuesOfFirstMatch(_)
\* an issue loop whose second test is an `else if`
issuesOfFirstMatch(list) ==
  IF list = <<>> THEN <<>>
  ELSE LET v == Head(list)
       IN (IF v.dimensions.escalationHandling < 50
           THEN <<[severity |-> "critical", category |-> "Escalation",
                   affectedScenarios |-> <<v.scenarioId>>]>>
           ELSE IF v.dimensions.accuracy < 50
           THEN <<[severity |-> "major", category |-> "Accuracy",
                   affectedScenarios |-> <<v.scenarioId>>]>>
           ELSE <<>>)
          \o issuesOfFirstMatch(Tail(list))

RECURSIVE issuesOf(_)
\* the loop over the verdicts that fills criticalIssues
issuesOf(list) ==
  IF list = <<>> THEN <<>>
  ELSE LET v == Head(list)
           escalation == IF v.dimensions.escalationHandling < 50
                         THEN <<[severity |-> "critical", category |-> "Escalation",
                                 affectedScenarios |-> <<v.scenarioId>>]>>
                         ELSE <<>>
           accuracy == IF v.dimensions.accuracy < 50
                       THEN <<[severity |-> "major", category |-> "Accuracy",
                               affectedScenarios |-> <<v.scenarioId>>]>>
                       ELSE <<>>
       IN escalation \o accuracy \o issuesOf(Tail(list))

calculateAverageDimensions(list) ==
  IF Len(list) = 0
  THEN [accuracy |-> 0, efficiency |-> 0, appropriateness |-> 0,
        escalationHandling |-> 0]
  ELSE LET n == Len(list)
           acc == [i \in 1..n |-> list[i].dimensions.accuracy]
           eff == [i \in 1..n |-> list[i].dimensions.efficiency]
           app == [i \in 1..n |-> list[i].dimensions.appropriateness]
           esc == [i \in 1..n |-> list[i].dimensions.escalationHandling]
       IN [accuracy |-> roundDiv(sumOf(acc), n),
           efficiency |-> roundDiv(sumOf(eff), n),
           appropriateness |-> roundDiv(sumOf(app), n),
           escalationHandling |-> roundDiv(sumOf(esc), n)]
\* improvement areas whose efficiency test is `<= 80`
improvementAreasOfAtMost80(avg) ==
  (IF avg.accuracy < 80
   THEN <<[area |-> "Intent Classification", currentScore |-> avg.accuracy,
           targetScore |-> 85]>>
   ELSE <<>>)
  \o
  (IF avg.efficiency <= 80
   THEN <<[area |-> "Response Efficiency", currentScore |-> avg.efficiency,
           targetScore |-> 85]>>
   ELSE <<>>)

improvementAreasOf(avg) ==
  (IF avg.accuracy < 80
   THEN <<[area |-> "Intent Classification", currentScore |-> avg.accuracy,
           targetScore |-> 85]>>
   ELSE <<>>)
  \o
  (IF avg.efficiency < 80
   THEN <<[area |-> "Response Efficiency", currentScore |-> avg.efficiency,
           targetScore |-> 85]>>
   ELSE <<>>)

\* what getVerdicts() may return: n verdicts as judgeScenario builds them, of
\* which the first a are of failed scenarios and the first c of runs that
\* took more than 5000 ms
VerdictList(n, a, c) ==
  [i \in 1..n |->
     LET accuracy == IF i <= a THEN 40 ELSE 100
         efficiency == IF i <= c THEN 80 ELSE 100
     IN [scenarioId |-> i,
         overallScore |-> roundDiv(accuracy + efficiency + 85 + 90, 4),
         dimensions |-> [accuracy |-> accuracy, efficiency |-> efficiency,
                         appropriateness |-> 85, escalationHandling |-> 90]]]

VerdictLists ==
  {VerdictList(t[1], t[2], t[3]) :
     t \in {u \in (0..MaxVerdicts) \X (0..MaxVerdicts) \X (0..MaxVerdicts) :
              u[2] <= u[1] /\ u[3] <= u[1]}}

\* lines 343-362 of reachConsensus, applied to a verdict list
identifyImprovementAreas ==
  /\ IsSome(averaging)
  /\ ~IsSome(Get(averaging).improvementAreas)
  /\ averaging' = Some([Get(averaging) EXCEPT !.improvementAreas =
        Some(improvementAreasOf(calculateAverageDimensions(Get(averaging).verdicts)))])
  /\ UNCHANGED <<scenarios, scenOrder, timelines, verdicts, verdictOrder, runs,
                 sessions, sessOrder, judges, integrationChecks, now, nRegister,
                 nRun, nJudge, batch>>

\* the scenarios the training-signal loop emits a signal for
signalled(scenario) == scenario.status = "failed" /\ IsSome(scenario.actualOutcome)

\* expectedOutcome.finalMessageContains?.join(', ') || ''
expectedOutputOf(scenario) ==
  IF IsSome(scenario.expectedOutcome.finalMessageContains)
  THEN join(Get(scenario.expectedOutcome.finalMessageContains), CommaSpace)
  ELSE <<>>

\* the signal built from the last input instead of the first
trainingSignalOfLastInput(scenario) ==
  [type |-> "negative",
   scenarioId |-> scenario.id,
   input |-> scenario.inputs[Len(scenario.inputs)].customerMessage,
   expectedOutput |-> expectedOutputOf(scenario),
   actualOutput |-> Get(scenario.actualOutcome).finalMessage]

trainingSignalOf(scenario) ==
  [type |-> "negative",
   scenarioId |-> scenario.id,
   input |-> scenario.inputs[1].customerMessage,
   expectedOutput |-> expectedOutputOf(scenario),
   actualOutput |-> Get(scenario.actualOutcome).finalMessage]

RECURSIVE signalsOf(_)
\* the loop over the scenarios that fills trainingSignals
signalsOf(list) ==
  IF list = <<>> THEN <<>>
  ELSE (IF signalled(Head(list)) THEN <<trainingSignalOf(Head(list))>> ELSE <<>>)
       \o signalsOf(Tail(list))

\* scenario.inputs[0].customerMessage reads a property of undefined when a
\* signalled scenario has no inputs: a TypeError leaves reachConsensus
signalLoopThrows(list) ==
  \E i \in 1..Len(list) : signalled(list[i]) /\ list[i].inputs = <<>>
\* a recommendation that blocks on any listed issue, whatever its severity
recommendationBlockOnAnyIssue(criticalIssues, passRate, overallScore) ==
  IF criticalIssues # <<>> THEN "BLOCK"
  ELSE IF RateBelow(passRate, 80) \/ overallScore < 70 THEN "IMPROVE"
  ELSE "SHIP"

\* the thresholds tested before the critical issues
recommendationThresholdsFirst(criticalIssues, passRate, overallScore) ==
  IF RateBelow(passRate, 80) \/ overallScore < 70 THEN "IMPROVE"
  ELSE IF \E i \in 1..Len(criticalIssues) : criticalIssues[i].severity = "critical"
  THEN "BLOCK"
  ELSE "SHIP"

recommendationOf(criticalIssues, passRate, overallScore) ==
  IF \E i \in 1..Len(criticalIssues) : criticalIssues[i].severity = "critical"
  THEN "BLOCK"
  ELSE IF RateBelow(passRate, 80) \/ overallScore < 70 THEN "IMPROVE"
  ELSE "SHIP"

\* the ConsensusVerdict reachConsensus builds from the engine's stores
consensusOf(verdictList, scenarioList) ==
  LET isPassed(s) == s.status = "passed"
      isExecuted(s) == s.status # "pending"
      passed == Len(SelectSeq(scenarioList, isPassed))
      total == Len(SelectSeq(scenarioList, isExecuted))
      passRate == passRateOf(passed, total)
      weightedScore == sumOf([i \in 1..Len(verdictList) |-> verdictList[i].overallScore])
      overallScore == IF Len(verdictList) > 0
                      THEN roundDiv(weightedScore, Len(verdictList)) ELSE 0
      criticalIssues == issuesOf(verdictList)
  IN [overallScore |-> overallScore,
      passRate |-> passRate,
      criticalIssues |-> criticalIssues,
      improvementAreas |-> improvementAreasOf(calculateAverageDimensions(verdictList)),
      trainingSignals |-> signalsOf(scenarioList),
      recommendation |-> recommendationOf(criticalIssues, passRate, overallScore)]

\* the four writes without `session.consensusReached = true`
completedWithoutFlag(session, consensus, at) ==
  [session EXCEPT !.finalVerdict = Some(consensus),
                  !.completedAt = Some(at),
                  !.status = "completed"]

\* lines 395-398: the four writes that complete a session
completed(session, consensus, at) ==
  [session EXCEPT !.finalVerdict = Some(consensus),
                  !.consensusReached = TRUE,
                  !.completedAt = Some(at),
                  !.status = "completed"]

reachConsensus(sessionId) ==
  /\ IsSome(sessions[sessionId])
  /\ ~signalLoopThrows(getScenarios)
  /\ sessions' = [sessions EXCEPT ![sessionId] =
        Some(completed(Get(sessions[sessionId]),
                       consensusOf(getVerdicts, getScenarios), now))]
  /\ nJudge' = nJudge + 1
  /\ UNCHANGED <<scenarios, scenOrder, timelines, verdicts, verdictOrder, runs,
                 sessOrder, judges, integrationChecks, averaging, now,
                 nRegister, nRun>>

\* an unknown session id answered with a fresh session instead of the throw
reachConsensusNotFoundCreates(sessionId) ==
  /\ ~IsSome(sessions[sessionId])
  /\ sessions' = [sessions EXCEPT ![sessionId] = Some(newSession(sessionId))]
  /\ sessOrder' = Append(sessOrder, sessionId)
  /\ UNCHANGED <<scenarios, scenOrder, timelines, verdicts, verdictOrder, runs,
                 judges, integrationChecks, averaging, now, nRegister, nRun,
                 nJudge, batch>>

reachConsensusNotFound(sessionId) ==
  /\ ~IsSome(sessions[sessionId])
  /\ UNCHANGED vars

\* the TypeError of the training-signal loop: thrown before the session is
\* written
reachConsensusTypeError(sessionId) ==
  /\ IsSome(sessions[sessionId])
  /\ signalLoopThrows(getScenarios)
  /\ UNCHANGED vars

(***************************************************************************)
(* The judge router, the CLI's exit code and the CI gate script.           *)
(***************************************************************************)
\* Date.now() reads the wall clock, which may be set back between two reads
clockSetBack ==
  /\ \E t \in 1..(now - 1) : now' = t
  /\ UNCHANGED <<scenarios, scenOrder, timelines, verdicts, verdictOrder, runs,
                 sessions, sessOrder, judges, integrationChecks, averaging,
                 nRegister, nRun, nJudge, batch>>

\* runIntegrationChecks: five checks, of which only 'Simulation Engine' depends
\* on the state; the new list replaces the stored one
runIntegrationChecks ==
  /\ integrationChecks' =
       << [name |-> "Tracer Singleton", status |-> "pass"],
          [name |-> "Memory Store", status |-> "pass"],
          [name |-> "Simulation Engine",
           status |-> IF Len(getScenarios) > 0 THEN "pass" ELSE "warn"],
          [name |-> "Agent Executors", status |-> "pass"],
          [name |-> "Tool Definitions", status |-> "pass"] >>
  /\ nJudge' = nJudge + 1
  /\ UNCHANGED <<scenarios, scenOrder, timelines, verdicts, verdictOrder, runs,
                 sessions, sessOrder, judges, averaging, now, nRegister, nRun,
                 batch>>

\* the report built from the verdict of the last session that has one
exportReportLastCompleted ==
  LET done == SelectSeq(sessOrder, LAMBDA sid : IsSome(Get(sessions[sid]).finalVerdict))
  IN [sessionId |-> IF done = <<>> THEN None ELSE Some(done[Len(done)]),
      verdict |-> IF done = <<>> THEN None
                  ELSE Get(sessions[done[Len(done)]]).finalVerdict,
      integrationChecks |-> integrationChecks,
      judges |-> judges]

\* exportReport: session?.id || 'none' and session?.finalVerdict of the
\* latest session, the stored checks and a copy of the roster
exportReport ==
  [sessionId |-> IF IsSome(getLatestSession)
                 THEN Some(Get(getLatestSession).id) ELSE None,
   verdict |-> IF IsSome(getLatestSession)
               THEN Get(getLatestSession).finalVerdict ELSE None,
   integrationChecks |-> integrationChecks,
   judges |-> [i \in 1..Len(judges) |->
                 [id |-> judges[i].id, name |-> judges[i].name,
                  role |-> judges[i].role, weight |-> judges[i].weight]]]

\* the response of GET /judge/gate to a report
gateOf(report) ==
  LET pass == IsSome(report.verdict) /\ Get(report.verdict).recommendation = "SHIP"
  IN [status |-> IF pass THEN 200 ELSE 503,
      gate |-> IF pass THEN "PASS" ELSE "FAIL",
      recommendation |-> IF IsSome(report.verdict)
                         THEN Get(report.verdict).recommendation ELSE "PENDING",
      score |-> IF IsSome(report.verdict)
                THEN Get(report.verdict).overallScore ELSE 0]

\* GET /judge/gate: reads, and writes nothing
getGate == UNCHANGED vars

\* an exit code that fails on everything but SHIP
cliExitCodeUnlessShip(verdict) == IF verdict.recommendation = "SHIP" THEN 0 ELSE 1

\* process.exit(verdict.recommendation === 'BLOCK' ? 1 : 0)
cliExitCode(verdict) == IF verdict.recommendation = "BLOCK" THEN 1 ELSE 0

\* the CI script's exit code for the recommendation of the gate's answer
gateScriptExit(rec) ==
  IF rec = "SHIP" THEN 0 ELSE IF rec = "IMPROVE" THEN 0 ELSE 1

\* POST /judge/consensus when no session is stored: 400
postConsensusNoSession ==
  /\ ~IsSome(getLatestSession)
  /\ UNCHANGED vars

\* the verdict store after the route's judgeAllScenarios(session.id)
judgedForConsensus ==
  judgeLoop(executedScenarios,
            [verdicts |-> verdicts, verdictOrder |-> verdictOrder,
             scenariosJudged |-> Get(getLatestSession).scenariosJudged])

\* POST /judge/consensus on the latest session: judgeAllScenarios, then
\* reachConsensus, then the verdict as the 200 answer
postConsensus ==
  /\ IsSome(getLatestSession)
  /\ ~signalLoopThrows(getScenarios)
  /\ LET session == Get(getLatestSession)
         end == judgedForConsensus
         verdictList == [i \in 1..Len(end.verdictOrder) |->
                           Get(end.verdicts[end.verdictOrder[i]])]
     IN /\ verdicts' = end.verdicts
        /\ verdictOrder' = end.verdictOrder
        /\ sessions' = [sessions EXCEPT ![session.id] =
              Some(completed([session EXCEPT !.scenariosJudged = end.scenariosJudged],
                             consensusOf(verdictList, getScenarios), now))]
  /\ nJudge' = nJudge + 2
  /\ UNCHANGED <<scenarios, scenOrder, timelines, runs, sessOrder, judges,
                 integrationChecks, averaging, now, nRegister, nRun, batch>>

\* POST /judge/consensus when reachConsensus throws its TypeError:
\* judgeAllScenarios has already written, the session stays as it was
\* otherwise, and the handler's exception becomes a 500
postConsensusThrows ==
  /\ IsSome(getLatestSession)
  /\ signalLoopThrows(getScenarios)
  /\ LET session == Get(getLatestSession)
         end == judgedForConsensus
     IN /\ verdicts' = end.verdicts
        /\ verdictOrder' = end.verdictOrder
        /\ sessions' = [sessions EXCEPT ![session.id] =
              Some([session EXCEPT !.scenariosJudged = end.scenariosJudged])]
  /\ nJudge' = nJudge + 2
  /\ UNCHANGED <<scenarios, scenOrder, timelines, runs, sessOrder, judges,
                 integrationChecks, averaging, now, nRegister, nRun, batch>>

\* the status of the answer POST /judge/consensus gives in the current state
consensusStatus ==
  IF ~IsSome(getLatestSession) THEN 400
  ELSE IF signalLoopThrows(getScenarios) THEN 500
  ELSE 200

(***************************************************************************)
(* POST /run-all (and the loop of the CLI's main, which has the same       *)
(* shape): one runSimulation per scenario of the array getScenarios()      *)
(* returned when the loop began, each awaited inside try/catch.            *)
(***************************************************************************)
\* the handler's state at its await: the array it iterates, the iteration it
\* is in, the results pushed so far, the suspended runSimulation it awaits
\* (its place in runs, 0 once that call has settled), how the call settled,
\* and the qualityScore of the timeline it returned
newBatch(ids) ==
  [ids |-> ids, pos |-> 0, results |-> <<>>, run |-> 0, awaiting |-> "run",
   score |-> 0]

\* the try block's push, or the catch block's
resultOf(b) ==
  IF b.awaiting = "thrown"
  THEN [id |-> b.ids[b.pos], status |-> "error", score |-> None]
  ELSE [id |-> b.ids[b.pos], status |-> "completed", score |-> Some(b.score)]

\* a loop that an exception leaves
moreToRunUnlessThrown(b) == b.awaiting # "thrown" /\ b.pos < Len(b.ids)

\* the for loop has a next scenario
moreToRun(b) == b.pos < Len(b.ids)

\* iteration i up to its await: runSimulation(scenario.id, executor) is called
\* and runs to its first await, or to its end when the scenario has no inputs
runAllIteration(b, i) ==
  /\ runSimulation(b.ids[i], SpecTraces, EngineDurations)
  /\ batch' = Some([b EXCEPT
        !.pos = i,
        !.run = IF Len(runs') > Len(runs) THEN Len(runs') ELSE 0,
        !.awaiting = IF Len(runs') > Len(runs) THEN "run" ELSE "returned",
        !.score = IF Len(runs') > Len(runs) THEN 0
                  ELSE Get(timelines'[b.ids[i]]).finalState.qualityScore])

\* res.json({ results, total: results.length })
respond(b, results) ==
  /\ batch' = Some([b EXCEPT !.results = results, !.awaiting = "done"])
  /\ UNCHANGED <<scenarios, scenOrder, timelines, verdicts, verdictOrder, runs,
                 sessions, sessOrder, judges, integrationChecks, averaging,
                 now, nRegister, nRun, nJudge>>

\* the handler up to its first await
postRunAll ==
  /\ batch = None
  /\ IF scenOrder = <<>> THEN respond(newBatch(<<>>), <<>>)
     ELSE runAllIteration(newBatch(scenOrder), 1)

\* what the settling of suspended call k means to the handler: its own call
\* has returned or thrown, or a call before its own has left runs
settle(k, left, how, score) ==
  IF batch = None THEN None
  ELSE LET b == Get(batch)
       IN IF left /\ b.run = k
          THEN Some([b EXCEPT !.run = 0, !.awaiting = how, !.score = score])
          ELSE IF left /\ b.run > k THEN Some([b EXCEPT !.run = b.run - 1])
          ELSE batch

\* the handler resumes after its await: the result is pushed, and the loop
\* goes to its next iteration or the response is sent
runAllResumes ==
  /\ IsSome(batch)
  /\ Get(batch).awaiting \in {"returned", "thrown"}
  /\ LET b == Get(batch)
         results == Append(b.results, resultOf(b))
     IN IF moreToRun(b)
        THEN runAllIteration([b EXCEPT !.results = results], b.pos + 1)
        ELSE respond(b, results)

(***************************************************************************)
(* Specifications                                                          *)
(***************************************************************************)
\* the stores of a new SimulationEngine and a new JudgeTeam
InitStores ==
  /\ scenarios = [id \in ScenarioIds |-> None]
  /\ scenOrder = <<>>
  /\ timelines = [id \in ScenarioIds |-> None]
  /\ verdicts = [id \in ScenarioIds |-> None]
  /\ verdictOrder = <<>>
  /\ runs = <<>>
  /\ sessions = [id \in SessionIds |-> None]
  /\ sessOrder = <<>>
  /\ judges = JudgeAgents
  /\ integrationChecks = <<>>
  /\ now = 1
  /\ nRegister = 0
  /\ nRun = 0
  /\ nJudge = 0
  /\ batch = None

Init == InitStores /\ averaging = None

\* the engine alone, on one scenario id, with every scenario definition and
\* every executor reply of the sets above
NextEngine ==
  \/ \E s \in EngineDefs :
       nRegister < MaxRegisterE /\ registerScenario(s) /\ UNCHANGED batch
  \/ \E id \in ScenarioIds :
       /\ nRun < MaxRunE
       /\ Len(runs) < MaxInFlight
       /\ runSimulation(id, TraceOptions, EngineDurations)
       /\ UNCHANGED batch
  \/ \E id \in ScenarioIds : runSimulationNotFound(id)
  \/ \E k \in 1..MaxInFlight, m \in ReplyMessages, e \in BOOLEAN :
       executorReturns(k, m, e, TraceOptions, EngineDurations) /\ UNCHANGED batch
  \/ \E k \in 1..MaxInFlight : executorThrows(k) /\ UNCHANGED batch

SpecEngine == Init /\ [][NextEngine]_vars

\* a pending executor call ends: its promise resolves or rejects
executorSettles ==
  \/ \E k \in 1..MaxInFlight, m \in ReplyMessages, e \in BOOLEAN :
       executorReturns(k, m, e, TraceOptions, EngineDurations) /\ UNCHANGED batch
  \/ \E k \in 1..MaxInFlight : executorThrows(k) /\ UNCHANGED batch

\* the engine with executors whose every call ends, by returning or throwing
SpecEngineFair == SpecEngine /\ WF_vars(executorSettles)

\* engine and judge team together
Next ==
  \/ \E s \in SpecDefs :
       nRegister < MaxRegister /\ registerScenario(s) /\ UNCHANGED batch
  \/ \E id \in ScenarioIds :
       /\ nRun < MaxRun
       /\ Len(runs) < MaxInFlight
       /\ runSimulation(id, SpecTraces, Durations)
       /\ UNCHANGED batch
  \/ \E id \in ScenarioIds : runSimulationNotFound(id)
  \/ \E k \in 1..MaxInFlight, m \in SpecReplies, e \in BOOLEAN :
       executorReturns(k, m, e, SpecTraces, Durations) /\ UNCHANGED batch
  \/ \E k \in 1..MaxInFlight : executorThrows(k) /\ UNCHANGED batch
  \/ \E id \in ScenarioIds :
       nJudge < MaxJudge /\ judgeScenario(id) /\ UNCHANGED batch
  \/ \E id \in ScenarioIds : judgeScenarioThrows(id)
  \/ nJudge < MaxJudge /\ startSession /\ UNCHANGED batch
  \/ Tick /\ UNCHANGED batch
  \/ \E sid \in SessionIds :
       nJudge < MaxJudge /\ judgeAllScenarios(sid) /\ UNCHANGED batch
  \/ \E sid \in SessionIds : judgeAllScenariosNotFound(sid)
  \/ \E sid \in SessionIds :
       nJudge < MaxJudge /\ reachConsensus(sid) /\ UNCHANGED batch
  \/ \E sid \in SessionIds : reachConsensusNotFound(sid)
  \/ \E sid \in SessionIds : reachConsensusTypeError(sid)

Spec == Init /\ [][Next]_vars

\* the engine under one POST /run-all, with registrations and one more
\* runSimulation call arriving while the handler is suspended
NextBatch ==
  \/ \E s \in SpecDefs :
       nRegister < MaxRegisterB /\ registerScenario(s) /\ UNCHANGED batch
  \/ \E id \in ScenarioIds :
       /\ nRun < MaxRunB
       /\ Len(runs) < MaxInFlight
       /\ runSimulation(id, SpecTraces, EngineDurations)
       /\ UNCHANGED batch
  \/ \E k \in 1..MaxInFlight + 1, m \in SpecReplies, e \in BOOLEAN :
       /\ executorReturns(k, m, e, SpecTraces, EngineDurations)
       /\ batch' = settle(k, Len(runs') < Len(runs), "returned",
                          IF Len(runs') < Len(runs)
                          THEN Get(timelines'[runs[k].id]).finalState.qualityScore
                          ELSE 0)
  \/ \E k \in 1..MaxInFlight + 1 :
       executorThrows(k) /\ batch' = settle(k, TRUE, "thrown", 0)
  \/ postRunAll
  \/ runAllResumes

SpecBatch == Init /\ [][NextBatch]_vars

\* the engine under the judge router: POST /judge/session, POST
\* /judge/consensus and GET /judge/gate, with a clock that may be set back
NextApi ==
  \/ \E s \in SpecDefs :
       nRegister < MaxRegisterA /\ registerScenario(s) /\ UNCHANGED batch
  \/ \E id \in ScenarioIds :
       /\ nRun < MaxRunA
       /\ Len(runs) < MaxInFlight
       /\ runSimulation(id, SpecTraces, Durations)
       /\ UNCHANGED batch
  \/ \E k \in 1..MaxInFlight, m \in SpecReplies, e \in BOOLEAN :
       executorReturns(k, m, e, SpecTraces, Durations) /\ UNCHANGED batch
  \/ \E k \in 1..MaxInFlight : executorThrows(k) /\ UNCHANGED batch
  \/ nJudge < MaxJudgeA /\ startSession /\ UNCHANGED batch
  \/ nJudge + 2 <= MaxJudgeA /\ postConsensus
  \/ nJudge + 2 <= MaxJudgeA /\ postConsensusThrows
  \/ nJudge < MaxJudgeA /\ runIntegrationChecks
  \/ postConsensusNoSession
  \/ getGate
  \/ Tick /\ UNCHANGED batch
  \/ clockSetBack

SpecApi == Init /\ [][NextApi]_vars

\* the engine on the built-in scenario SCENE-001, with every trace the tracer
\* may hold for the run's session
NextScene ==
  \/ nRegister < MaxRegisterS /\ registerScenario(SCENE_001) /\ UNCHANGED batch
  \/ /\ nRun < MaxRunS
     /\ Len(runs) < MaxInFlight
     /\ runSimulation("SCENE-001", TraceOptions, Durations)
     /\ UNCHANGED batch
  \/ \E k \in 1..MaxInFlight, m \in SceneReplies, e \in BOOLEAN :
       executorReturns(k, m, e, TraceOptions, Durations) /\ UNCHANGED batch
  \/ \E k \in 1..MaxInFlight : executorThrows(k) /\ UNCHANGED batch

SpecScene == Init /\ [][NextScene]_vars
\* one engine on a pair of scenarios that differ in nothing the engine
\* reads: each is registered once, run once and judged
NextPair ==
  \/ \E s \in PairDefs :
       /\ nRegister < MaxRegisterP
       /\ ~IsSome(scenarios[s.id])
       /\ \A id \in ScenarioIds :
            IsSome(scenarios[id]) =>
              readParts(Get(scenarios[id])) = readParts(s)
       /\ registerScenario(s)
       /\ UNCHANGED batch
  \/ \E id \in ScenarioIds :
       /\ nRun < MaxRunP
       /\ IsSome(scenarios[id])
       /\ Get(scenarios[id]).status = "pending"
       /\ runSimulation(id, PairTraces, Durations)
       /\ UNCHANGED batch
  \/ \E k \in 1..MaxInFlight, m \in SpecReplies, e \in BOOLEAN :
       executorReturns(k, m, e, PairTraces, Durations) /\ UNCHANGED batch
  \/ \E k \in 1..MaxInFlight : executorThrows(k) /\ UNCHANGED batch
  \/ \E id \in ScenarioIds :
       nJudge < MaxJudgeP /\ judgeScenario(id) /\ UNCHANGED batch

SpecPair == Init /\ [][NextPair]_vars

\* the averaging step of reachConsensus on its own, over verdict lists of up
\* to MaxVerdicts verdicts
InitAveraging ==
  /\ InitStores
  /\ averaging \in {Some([verdicts |-> list, improvementAreas |-> None]) :
                      list \in VerdictLists}

NextAveraging == identifyImprovementAreas

SpecAveraging == InitAveraging /\ [][NextAveraging]_vars

(***************************************************************************)
(* Properties                                                              *)
(***************************************************************************)
Registered == {id \in ScenarioIds : IsSome(scenarios[id])}
Scenario(id) == Get(scenarios[id])
Stored == {sid \in SessionIds : IsSome(sessions[sid])}
Session(sid) == Get(sessions[sid])
Completed == {sid \in Stored : Session(sid).status = "completed"}
Verdict(sid) == Get(Session(sid).finalVerdict)

\* two letters that differ at most in case
SameLetter(c, d) == c = d \/ {c, d} \in {{"a", "A"}, {"b", "B"}}

\* needle is a substring of text, case ignored
OccursIgnoringCase(needle, text) ==
  \E off \in 0..(Len(text) - Len(needle)) :
    \A j \in 1..Len(needle) : SameLetter(text[off + j], needle[j])

\* the pass rule of the specification
PassRule(expected, escalated, finalMessage) ==
  /\ expected.escalated = escalated
  /\ IsSome(expected.finalMessageContains) =>
       \A j \in 1..Len(Get(expected.finalMessageContains)) :
         OccursIgnoringCase(Get(expected.finalMessageContains)[j], finalMessage)

\* a step of SpecEngine in which a runSimulation call on the scenario stored
\* under id returns its timeline
EngineRunReturns(id) ==
  \/ /\ IsSome(scenarios[id])
     /\ Scenario(id).inputs = <<>>
     /\ runSimulation(id, TraceOptions, EngineDurations)
  \/ \E k \in 1..Len(runs), m \in ReplyMessages, e \in BOOLEAN :
       /\ runs[k].id = id
       /\ ~runs[k].detached
       /\ Len(runs') < Len(runs)
       /\ executorReturns(k, m, e, TraceOptions, EngineDurations)

\* the same step of Spec
RunReturns(id) ==
  \/ /\ IsSome(scenarios[id])
     /\ Scenario(id).inputs = <<>>
     /\ runSimulation(id, SpecTraces, Durations)
  \/ \E k \in 1..Len(runs), m \in SpecReplies, e \in BOOLEAN :
       /\ runs[k].id = id
       /\ ~runs[k].detached
       /\ Len(runs') < Len(runs)
       /\ executorReturns(k, m, e, SpecTraces, Durations)

\* a step that registers a scenario under id
Registers(id) == \E s \in SpecDefs : s.id = id /\ registerScenario(s)

\* C1: a scenario that a run has left passed or failed is passed exactly
\* when its expected escalation flag equals the run's flag and every
\* required substring occurs, case ignored, in the final reply; in every
\* other case it is failed.  SpecEngine draws the expected flag, the needle
\* list, the replies and their flags from all the combinations of its sets.
C1_PassedIffRule ==
  \A id \in Registered :
    Scenario(id).status \in {"passed", "failed"} =>
      /\ IsSome(Scenario(id).actualOutcome)
      /\ Scenario(id).status = "passed" <=>
           PassRule(Scenario(id).expectedOutcome,
                    Get(Scenario(id).actualOutcome).escalated,
                    Get(Scenario(id).actualOutcome).finalMessage)

\* a scenario passed on needles that match only when case is ignored
C1_Witness ==
  \E id \in Registered :
    /\ Scenario(id).status = "passed"
    /\ Scenario(id).expectedOutcome.finalMessageContains = Some(<< <<"B">>, <<"a">> >>)
    /\ Get(Scenario(id).actualOutcome).finalMessage = <<"A", "b">>

\* C2: when runSimulation returns for a scenario, the scenario's status is
\* one of passed, failed, warning, error, and not pending or running.
C2_TerminalOnReturn ==
  [][\A id \in ScenarioIds :
       RunReturns(id) =>
         Get(scenarios'[id]).status \in {"passed", "failed", "warning", "error"}]_vars

\* a run has returned: its timeline is stored and its scenario is passed or
\* failed
C2_Witness ==
  \E id \in Registered :
    /\ IsSome(timelines[id])
    /\ Scenario(id).status \in {"passed", "failed"}

\* C3 as stated: once a scenario is passed or failed, no step other than a
\* registerScenario of its id leaves it pending or running.
C3_NeverBackToRunning ==
  [][\A id \in ScenarioIds :
       (/\ IsSome(scenarios[id])
        /\ Scenario(id).status \in {"passed", "failed"}
        /\ ~Registers(id))
       => Get(scenarios'[id]).status \notin {"pending", "running"}]_vars

\* the start of a further runSimulation call on id: one more suspended run,
\* on that id
RunStartsOn(id) ==
  /\ nRun' = nRun + 1
  /\ Len(runs') = Len(runs) + 1
  /\ runs'[Len(runs')].id = id

\* C3 amended: without a registerScenario of its id, a scenario's status
\* never becomes pending, and it becomes running only by the start of a
\* runSimulation call on its id.
C3_RunningOnlyByRunStart ==
  [][\A id \in ScenarioIds :
       (IsSome(scenarios[id]) /\ ~Registers(id)) =>
         /\ Get(scenarios'[id]).status = "pending" => Scenario(id).status = "pending"
         /\ (Get(scenarios'[id]).status = "running" /\ Scenario(id).status # "running")
              => RunStartsOn(id)]_vars

\* a scenario that has completed a run is running again
C3_Witness ==
  \E id \in Registered :
    /\ Scenario(id).status = "running"
    /\ IsSome(Scenario(id).actualOutcome)
    /\ IsSome(timelines[id])

\* some issue of the verdict has severity critical
HasCritical(v) ==
  \E i \in 1..Len(v.criticalIssues) : v.criticalIssues[i].severity = "critical"

\* passRate < 80 or overallScore < 70
BelowThresholds(v) == v.passRate.num < 80 * v.passRate.den \/ v.overallScore < 70

Indicator(b) == IF b THEN 1 ELSE 0

\* the quality score of the specification
QualityRule(expectedEscalated, escalated, eventCount) ==
  LET raw == 100 - 30 * Indicator(escalated /\ ~expectedEscalated)
                 - 40 * Indicator(expectedEscalated /\ ~escalated)
                 + 5 * Indicator(eventCount <= 3)
                 - 10 * Indicator(eventCount > 10)
  IN IF raw < 0 THEN 0 ELSE IF raw > 100 THEN 100 ELSE raw

\* a missing trace counts as 0 events
EventCount(trace) == IF trace = None THEN 0 ELSE Get(trace)

\* C5: the qualityScore of every stored timeline is an integer in 0..100,
\* and the timeline a run returns has the score the rule gives for the
\* scenario's expected flag, the run's flag and the trace's event count.
C5_QualityScore ==
  /\ [](\A id \in ScenarioIds :
          IsSome(timelines[id]) =>
            Get(timelines[id]).finalState.qualityScore \in 0..100)
  /\ [][\A id \in ScenarioIds :
          EngineRunReturns(id) =>
            LET actual == Get(Get(scenarios'[id]).actualOutcome)
            IN Get(timelines'[id]).finalState.qualityScore =
                 QualityRule(Scenario(id).expectedOutcome.escalated,
                             actual.escalated, EventCount(actual.trace))]_vars

\* a timeline whose score the clamp brought back to 100
C5_Witness ==
  \E id \in Registered :
    /\ IsSome(timelines[id])
    /\ Scenario(id).status = "passed"
    /\ Get(Scenario(id).actualOutcome).trace = Some(3)
    /\ Get(timelines[id]).finalState.qualityScore = 100

\* the customer messages of the first n inputs, in their listed order
FirstMessages(inputs, n) == [j \in 1..n |-> inputs[j].customerMessage]

\* C6: the executor is called on the inputs in their listed order; a reply
\* that escalates, or the reply to the last input, ends the run with one
\* message event per call made and no further call; any other reply is
\* followed by the call for the next input; the scenario then passes or
\* fails by the last reply alone, whatever inputs were skipped.
C6_StopsAtFirstEscalation ==
  /\ [](\A k \in 1..Len(runs) :
          /\ Len(runs[k].calls) \in 1..Len(runs[k].inputs)
          /\ runs[k].calls = FirstMessages(runs[k].inputs, Len(runs[k].calls)))
  /\ [][\A k \in 1..Len(runs), m \in ReplyMessages, e \in BOOLEAN :
          executorReturns(k, m, e, TraceOptions, EngineDurations) =>
            LET run == runs[k]
            IN IF e \/ Len(run.calls) = Len(run.inputs)
               THEN /\ Len(runs') = Len(runs) - 1
                    /\ Len(Get(timelines'[run.id]).events) = 2 * Len(run.calls)
                    /\ ~run.detached =>
                         (Get(scenarios'[run.id]).status = "passed"
                            <=> PassRule(run.expectedOutcome, e, m))
               ELSE /\ Len(runs') = Len(runs)
                    /\ runs'[k].calls =
                         FirstMessages(run.inputs, Len(run.calls) + 1)]_vars

\* a two-input scenario passed after one call: the first reply escalated
C6_Witness ==
  \E id \in Registered :
    /\ Len(Scenario(id).inputs) = 2
    /\ Scenario(id).status = "passed"
    /\ IsSome(timelines[id])
    /\ Len(Get(timelines[id]).events) = 2
    /\ Get(timelines[id]).events[2].type = "escalation"

\* C7: once a session is completed, no later call changes its finalVerdict,
\* completedAt or scenariosJudged (startSession, which stores a new session,
\* set aside).
C7_CompletedImmutable ==
  [][\A sid \in SessionIds :
       (/\ IsSome(sessions[sid])
        /\ Session(sid).status = "completed"
        /\ ~startSession)
       => /\ IsSome(sessions'[sid])
          /\ Get(sessions'[sid]).finalVerdict = Session(sid).finalVerdict
          /\ Get(sessions'[sid]).completedAt = Session(sid).completedAt
          /\ Get(sessions'[sid]).scenariosJudged = Session(sid).scenariosJudged]_vars

\* C8: for every stored session, consensusReached, the presence of
\* finalVerdict, the presence of completedAt and status = completed are
\* equivalent, and the status is active or completed, never failed.
C8_CompletionFieldsAgree ==
  \A sid \in Stored :
    LET s == Session(sid)
    IN /\ s.status \in {"active", "completed"}
       /\ s.consensusReached <=> IsSome(s.finalVerdict)
       /\ IsSome(s.finalVerdict) <=> IsSome(s.completedAt)
       /\ IsSome(s.completedAt) <=> (s.status = "completed")

\* a completed session beside an active one
C8_Witness ==
  \E a, b \in Stored :
    /\ Session(a).status = "completed"
    /\ Session(a).consensusReached
    /\ Session(b).status = "active"
    /\ ~Session(b).consensusReached

\* the strings of a list written one after the other with ", " between them
JoinedByCommaSpace(list) ==
  LET upTo[i \in 0..Len(list)] ==
        IF i = 0 THEN <<>>
        ELSE IF i = 1 THEN list[1]
        ELSE upTo[i - 1] \o <<",", " ">> \o list[i]
  IN upTo[Len(list)]

\* the expected substrings of a scenario as one string, empty when it has none
ExpectedSubstrings(s) ==
  IF IsSome(s.expectedOutcome.finalMessageContains)
  THEN JoinedByCommaSpace(Get(s.expectedOutcome.finalMessageContains))
  ELSE <<>>

\* the positions of the signals of a verdict that name scenario id
SignalsFor(v, id) ==
  {i \in 1..Len(v.trainingSignals) : v.trainingSignals[i].scenarioId = id}

ScoreOf(id) == IF IsSome(verdicts[id]) THEN Get(verdicts[id]).overallScore ELSE 0

RECURSIVE SumOver(_)
\* the sum of ScoreOf over a set of ids
SumOver(ids) ==
  IF ids = {} THEN 0
  ELSE LET id == CHOOSE x \in ids : TRUE IN ScoreOf(id) + SumOver(ids \ {id})

\* C10: every consensus verdict has passRate and overallScore in [0, 100];
\* the verdict a reachConsensus call stores has passRate = 100 * passed /
\* executed over the registered scenarios (executed: status not pending), 0
\* when none is executed, and overallScore the mean of the stored verdicts'
\* overallScore rounded to the nearest integer, 0 when none is stored.
C10_PassRateAndScore ==
  /\ [](\A sid \in Completed :
          /\ Verdict(sid).overallScore \in 0..100
          /\ Verdict(sid).passRate.den > 0
          /\ Verdict(sid).passRate.num >= 0
          /\ Verdict(sid).passRate.num <= 100 * Verdict(sid).passRate.den)
  /\ [][\A sid \in SessionIds :
          reachConsensus(sid) =>
            LET v == Get(Get(sessions'[sid]).finalVerdict)
                P == Cardinality({id \in Registered : Scenario(id).status = "passed"})
                T == Cardinality({id \in Registered : Scenario(id).status # "pending"})
                judgedIds == {id \in ScenarioIds : IsSome(verdicts[id])}
                n == Cardinality(judgedIds)
                sum == SumOver(judgedIds)
            IN /\ IF T = 0 THEN v.passRate.num = 0
                  ELSE v.passRate.num * T = 100 * P * v.passRate.den
               /\ IF n = 0 THEN v.overallScore = 0
                  ELSE /\ 2 * n * v.overallScore - n <= 2 * sum
                       /\ 2 * sum < 2 * n * v.overallScore + n]_vars

\* a verdict over one passed and one failed scenario, both judged
C10_Witness ==
  \E sid \in Completed :
    /\ Verdict(sid).passRate = [num |-> 50, den |-> 1]
    /\ Verdict(sid).overallScore \in 1..99
    /\ Cardinality(Registered) = 2
    /\ \A id \in Registered : IsSome(verdicts[id])

\* the four stores of the engine and the judge team
Stores == <<scenarios, scenOrder, timelines, verdicts, verdictOrder, sessions, sessOrder>>

\* C11: a lookup that fails is an error that changes nothing.  In a state
\* where an id is not registered, no step is a runSimulation or judgeScenario
\* that goes through on it, and the throwing call leaves the stores as they
\* were; the same for judgeScenario on an id without a stored timeline, and
\* for judgeAllScenarios and reachConsensus on an unknown session id.
C11_LookupFailuresChangeNothing ==
  [][/\ \A id \in ScenarioIds :
          ~IsSome(scenarios[id]) =>
            /\ ~runSimulation(id, SpecTraces, Durations)
            /\ runSimulationNotFound(id) => UNCHANGED Stores
     /\ \A id \in ScenarioIds :
          (~IsSome(scenarios[id]) \/ ~IsSome(timelines[id])) =>
            /\ ~judgeScenario(id)
            /\ judgeScenarioThrows(id) => UNCHANGED Stores
     /\ \A sid \in SessionIds :
          ~IsSome(sessions[sid]) =>
            /\ ~judgeAllScenarios(sid)
            /\ ~reachConsensus(sid)
            /\ judgeAllScenariosNotFound(sid) => UNCHANGED Stores
            /\ reachConsensusNotFound(sid) => UNCHANGED Stores]_vars

\* every kind of failing lookup is possible, beside stores that are not
\* empty: an unregistered id, a registered id without timeline, an unknown
\* session id beside a stored session
C11_Witness ==
  /\ \E id \in ScenarioIds : ~IsSome(scenarios[id])
  /\ \E id \in Registered : ~IsSome(timelines[id]) /\ Scenario(id).status = "running"
  /\ \E sid \in SessionIds : ~IsSome(sessions[sid])
  /\ \E sid \in Stored : Session(sid).status = "completed"

\* the scenarios judgeAllScenarios judges: executed, and with a timeline
Judgeable(id) ==
  /\ id \in Registered
  /\ Scenario(id).status # "pending"
  /\ IsSome(timelines[id])

\* the place of a registered id in registration order
Position(id) == CHOOSE i \in 1..Len(scenOrder) : scenOrder[i] = id

\* C12: judgeAllScenarios on a known session goes through also when an
\* executed scenario has no timeline and cannot be judged; it stores a new
\* verdict for every registered scenario that is not pending and has a
\* timeline, leaves the verdict of every other scenario (pending, or without
\* timeline) as it was, and appends to the session's scenariosJudged exactly
\* the judged ids, once each, in registration order.
C12_JudgeAllSkipsAndContinues ==
  /\ []((\E id \in Registered :
            Scenario(id).status # "pending" /\ ~IsSome(timelines[id]))
        => \A sid \in Stored : ENABLED judgeAllScenarios(sid))
  /\ [][\A sid \in SessionIds :
          judgeAllScenarios(sid) =>
            LET before == Session(sid).scenariosJudged
                after == Get(sessions'[sid]).scenariosJudged
                added == SubSeq(after, Len(before) + 1, Len(after))
            IN /\ \A id \in ScenarioIds :
                    IF Judgeable(id)
                    THEN /\ IsSome(verdicts'[id])
                         /\ Get(verdicts'[id]).scenarioId = id
                         /\ Get(verdicts'[id]).dimensions.accuracy =
                              (IF Scenario(id).status = "failed" THEN 40 ELSE 100)
                    ELSE verdicts'[id] = verdicts[id]
               /\ SubSeq(after, 1, Len(before)) = before
               /\ {added[i] : i \in 1..Len(added)} = {id \in ScenarioIds : Judgeable(id)}
               /\ \A i, j \in 1..Len(added) :
                    i < j => Position(added[i]) < Position(added[j])
               /\ UNCHANGED <<scenarios, scenOrder, timelines>>]_vars

\* the first registered scenario could not be judged and was skipped, the one
\* after it was judged
C12_Witness ==
  \E sid \in Stored :
    /\ scenOrder = <<"S1", "S2">>
    /\ Scenario("S1").status = "running"
    /\ ~IsSome(timelines["S1"])
    /\ ~IsSome(verdicts["S1"])
    /\ Session(sid).scenariosJudged = <<"S2">>
    /\ IsSome(verdicts["S2"])

\* the handler has sent its response
BatchDone == IsSome(batch) /\ Get(batch).awaiting = "done"

\* C13: a run-all batch iterates the scenarios registered when it began, in
\* registration order; it pushes one result per scenario it has gone
\* through, in that order, so that the response has exactly one record per
\* scenario and total = their number; when the executor throws in a
\* scenario's run, the record pushed for it has status 'error', and the next
\* scenario, if there is one, is run in the same step.
C13_OneResultPerScenario ==
  /\ [](IsSome(batch) =>
          LET b == Get(batch)
          IN /\ Len(b.results) = (IF BatchDone THEN Len(b.ids) ELSE b.pos - 1)
             /\ \A i \in 1..Len(b.results) :
                  /\ b.results[i].id = b.ids[i]
                  /\ b.results[i].status \in {"completed", "error"}
                  /\ b.results[i].status = "completed" =>
                       Get(b.results[i].score) \in 0..100
             /\ b.ids = SubSeq(scenOrder, 1, Len(b.ids))
             /\ \A i, j \in 1..Len(b.ids) : i # j => b.ids[i] # b.ids[j])
  /\ [][/\ postRunAll =>
             /\ Get(batch').ids = scenOrder
             /\ {Get(batch').ids[i] : i \in 1..Len(scenOrder)} = Registered
             /\ Len(Get(batch').ids) = Cardinality(Registered)
        /\ (runAllResumes /\ Get(batch).awaiting = "thrown") =>
             LET b == Get(batch)
                 after == Get(batch')
             IN /\ after.results[b.pos] = [id |-> b.ids[b.pos], status |-> "error",
                                           score |-> None]
                /\ IF b.pos < Len(b.ids)
                   THEN /\ after.pos = b.pos + 1
                        /\ nRun' = nRun + 1
                        /\ Get(scenarios'[b.ids[b.pos + 1]]).status # "pending"
                   ELSE after.awaiting = "done"]_vars

\* a finished batch over two scenarios: the executor threw in the first one's
\* run, and the second was still run to its end
C13_Witness ==
  /\ BatchDone
  /\ Len(Get(batch).results) = 2
  /\ Get(batch).results[1].status = "error"
  /\ Get(batch).results[2].status = "completed"
  /\ Scenario(Get(batch).ids[2]).status \in {"passed", "failed"}

\* the id the sessions Map holds last in insertion order
LatestId == sessOrder[Len(sessOrder)]

\* the most recently inserted session has a verdict that recommends SHIP
LatestShips ==
  /\ sessOrder # <<>>
  /\ IsSome(Session(LatestId).finalVerdict)
  /\ Verdict(LatestId).recommendation = "SHIP"

\* C14: GET /judge/gate answers 200 with gate PASS exactly when the most
\* recently inserted session has a final verdict that recommends SHIP, and
\* 503 with gate FAIL in every other state, whatever verdicts earlier
\* sessions hold.
C14_GateOpensOnLatestShip ==
  LET answer == gateOf(exportReport)
  IN /\ answer.status \in {200, 503}
     /\ answer.status = 200 <=> LatestShips
     /\ answer.gate = (IF LatestShips THEN "PASS" ELSE "FAIL")

\* an earlier session holds a SHIP verdict, a newer one has been started, and
\* the gate answers 503
C14_Witness ==
  /\ Len(sessOrder) = 2
  /\ IsSome(Session(sessOrder[1]).finalVerdict)
  /\ Verdict(sessOrder[1]).recommendation = "SHIP"
  /\ Session(sessOrder[2]).status = "active"
  /\ gateOf(exportReport).status = 503
  /\ gateOf(exportReport).recommendation = "PENDING"

\* the answer of the gate to a report that holds verdict v
GateOn(v) == gateOf([sessionId |-> None, verdict |-> Some(v)])

\* C15: on every consensus verdict, the CLI exits with 1 exactly when the
\* recommendation is BLOCK and the gate answers 503 exactly when it is not
\* SHIP; so the gate fails whenever the CLI fails, and the two disagree (CLI
\* 0, gate 503) exactly when the recommendation is IMPROVE.
C15_CliAndGate ==
  \A sid \in Completed :
    LET v == Verdict(sid)
        cliFails == cliExitCode(v) = 1
        gateFails == GateOn(v).status = 503
    IN /\ cliExitCode(v) \in {0, 1}
       /\ cliFails <=> v.recommendation = "BLOCK"
       /\ gateFails <=> v.recommendation # "SHIP"
       /\ cliFails => gateFails
       /\ (cliFails # gateFails) <=> v.recommendation = "IMPROVE"

\* a verdict that recommends IMPROVE: the CLI exits with 0, the gate answers
\* 503
C15_Witness ==
  \E sid \in Completed :
    /\ Verdict(sid).recommendation = "IMPROVE"
    /\ cliExitCode(Verdict(sid)) = 0
    /\ GateOn(Verdict(sid)).status = 503

\* no session is stored, or the latest one is completed
NoActiveSession == sessOrder = <<>> \/ Session(LatestId).status # "active"

\* C16: while there is no active session, POST /judge/consensus answers 400
\* and no step is a POST /judge/consensus that judges or completes anything.
C16_ConsensusNeedsActiveSession ==
  [][NoActiveSession =>
       /\ consensusStatus = 400
       /\ ~postConsensus
       /\ ~postConsensusThrows]_vars

\* C17: right after every startSession call, getLatestSession returns the
\* session that call created, and no other step changes which session is
\* the latest; before any call it returns nothing.
C17_LatestIsMostRecentlyStarted ==
  /\ [](sessOrder = <<>> => getLatestSession = None)
  /\ [][/\ startSession =>
             /\ sessOrder' # <<>>
             /\ sessOrder'[Len(sessOrder')] = now
             /\ sessions'[now] = Some(newSession(now))
        /\ (~startSession /\ sessOrder # <<>>) =>
             sessOrder'[Len(sessOrder')] = LatestId]_vars

\* C18: every startSession call adds one session (active, consensusReached
\* false, scenariosJudged empty) and leaves every session stored before it
\* stored and unchanged.
C18_SessionsAccumulate ==
  [][startSession =>
       /\ Len(sessOrder') = Len(sessOrder) + 1
       /\ Cardinality({sid \in SessionIds : IsSome(sessions'[sid])})
            = Cardinality(Stored) + 1
       /\ \A sid \in Stored : sessions'[sid] = sessions[sid]
       /\ \E sid \in SessionIds \ Stored :
            /\ Get(sessions'[sid]).status = "active"
            /\ ~Get(sessions'[sid]).consensusReached
            /\ Get(sessions'[sid]).scenariosJudged = <<>>]_vars

\* C19: registerScenario never fails.  getScenarios holds exactly one
\* scenario per registered id, in the order the ids were first registered.
\* A registration stores its scenario under its id, in the id's old place
\* if it had one and at the end otherwise, and changes no other id's
\* scenario; no other step changes the ids, or the inputs and expected
\* outcome a scenario was registered with.
C19_RegisterOverwritesById ==
  /\ [](/\ \A s \in SpecDefs : ENABLED registerScenario(s)
        /\ Len(getScenarios) = Cardinality(Registered)
        /\ \A i \in 1..Len(scenOrder) :
             /\ scenOrder[i] \in Registered
             /\ getScenarios[i].id = scenOrder[i]
             /\ \A j \in 1..Len(scenOrder) : i # j => scenOrder[i] # scenOrder[j])
  /\ [][/\ \A s \in SpecDefs :
             registerScenario(s) =>
               /\ scenarios'[s.id] = Some(s)
               /\ \A id \in ScenarioIds \ {s.id} : scenarios'[id] = scenarios[id]
               /\ scenOrder' = (IF s.id \in Registered THEN scenOrder
                                ELSE scenOrder \o <<s.id>>)
        /\ \A id \in Registered :
             ~Registers(id) =>
               /\ IsSome(scenarios'[id])
               /\ Get(scenarios'[id]).id = id
               /\ Get(scenarios'[id]).inputs = Scenario(id).inputs
               /\ Get(scenarios'[id]).expectedOutcome = Scenario(id).expectedOutcome
        /\ (\A id \in ScenarioIds : ~Registers(id)) => scenOrder' = scenOrder]_vars

\* an id registered a second time, with another definition, after a run on
\* the first: one scenario is stored, the second one
C19_Witness ==
  /\ nRegister = 2
  /\ scenOrder = <<"S2">>
  /\ Scenario("S2").inputs = <<>>
  /\ Scenario("S2").status = "pending"
  /\ IsSome(timelines["S2"])

OnlyTheBatchRuns == IsSome(batch) /\ nRun = Get(batch).pos

\* the scenarios in status 'running'
Running == {id \in Registered : Scenario(id).status = "running"}

\* C21: while a run-all batch is in progress and no other caller runs a
\* scenario, at most one run is in flight and at most one scenario is in
\* status 'running'.
C21_OneRunningPerBatch ==
  OnlyTheBatchRuns => (Len(runs) <= 1 /\ Cardinality(Running) <= 1)

\* the part of C21 the loop does guarantee: the batch awaits each run before it
\* starts the next, so that at most one run of the batch is in flight
C21_OneRunInFlightPerBatch == OnlyTheBatchRuns => Len(runs) <= 1

\* the roles and the weights, in hundredths, of a report's roster
RolesOf(report) == [i \in 1..Len(report.judges) |-> report.judges[i].role]
WeightsOf(report) == [i \in 1..Len(report.judges) |-> report.judges[i].weight]

\* C22: in every reachable state exportReport().judges has exactly 5 entries,
\* with the roles accuracy, safety, efficiency, experience and integration and
\* the weights 0.30, 0.25, 0.15, 0.20 and 0.10, which sum to 100%; and no step
\* (session start, integration checks, consensus, runs, registrations)
\* changes the roster.
C22_RosterOfFive ==
  /\ [](/\ Len(exportReport.judges) = 5
        /\ RolesOf(exportReport) =
             <<"accuracy", "safety", "efficiency", "experience", "integration">>
        /\ WeightsOf(exportReport) = <<30, 25, 15, 20, 10>>
        /\ sumOf(WeightsOf(exportReport)) = 100)
  /\ [][judges' = judges]_vars

\* a session was started, the integration checks were run over a registered
\* scenario and the session has its consensus verdict; the report still lists
\* five judges
C22_Witness ==
  /\ Len(sessOrder) = 1
  /\ Registered # {}
  /\ integrationChecks # <<>>
  /\ IsSome(exportReport.verdict)
  /\ Len(exportReport.judges) = 5

\* run k, a run of SCENE-001 that still holds the registered scenario, gets
\* 'I can help with your order status' without escalation as the reply to its
\* last input and returns
SceneRunReturns(k) ==
  /\ k \in 1..Len(runs)
  /\ runs[k].id = "SCENE-001"
  /\ ~runs[k].detached
  /\ Len(runs') < Len(runs)
  /\ executorReturns(k, OrderStatusReply, FALSE, TraceOptions, Durations)

\* C23 as stated: such a run of SCENE-001 leaves status 'passed' and
\* finalState.qualityScore = 100, whatever the tracer recorded.
C23_Scene001Scores100 ==
  [][\A k \in 1..MaxInFlight :
       SceneRunReturns(k) =>
         /\ Get(scenarios'["SCENE-001"]).status = "passed"
         /\ Get(timelines'["SCENE-001"]).finalState.qualityScore = 100]_vars

\* C23, amended: a run of SCENE-001 whose responder answers 'I can help with
\* your order status' without escalating leaves status 'passed', and
\* finalState.qualityScore = 100 when the session's trace has at most 10
\* events (or is missing), 90 when it has more.
C23_Scene001PassesAndScores ==
  [][\A k \in 1..MaxInFlight :
       SceneRunReturns(k) =>
         LET scenario == Get(scenarios'["SCENE-001"])
             timeline == Get(timelines'["SCENE-001"])
         IN /\ scenario.status = "passed"
            /\ Len(timeline.events) = 4
            /\ ~timeline.finalState.escalated
            /\ timeline.finalState.qualityScore =
                 (IF EventCount(Get(scenario.actualOutcome).trace) > 10
                  THEN 90 ELSE 100)]_vars

\* SCENE-001 was run to its end with that reply to both inputs' calls: passed,
\* quality score 100
C23_Witness ==
  /\ IsSome(scenarios["SCENE-001"])
  /\ Scenario("SCENE-001").status = "passed"
  /\ Get(Scenario("SCENE-001").actualOutcome).finalMessage = OrderStatusReply
  /\ Len(Get(timelines["SCENE-001"]).events) = 4
  /\ Get(timelines["SCENE-001"]).finalState.qualityScore = 100

\* C24: a consensus verdict recommends SHIP only when passRate >= 90,
\* overallScore >= 80 and the criticalIssues list is empty.
C24_ShipNeedsDocumentedThresholds ==
  \A sid \in Completed :
    LET v == Verdict(sid)
    IN v.recommendation = "SHIP" =>
         /\ v.passRate.num >= 90 * v.passRate.den
         /\ v.overallScore >= 80
         /\ v.criticalIssues = <<>>

\* the statuses a run can end in
TerminalStatuses == {"passed", "failed", "warning", "error"}

\* C25: when every executor call ends, by returning or by throwing, every
\* scenario that is in status 'running' eventually has a terminal status
\* (passed, failed, warning or error).
C25_RunningReachesTerminal ==
  \A id \in ScenarioIds :
    (IsSome(scenarios[id]) /\ Get(scenarios[id]).status = "running")
      ~> (IsSome(scenarios[id]) /\ Get(scenarios[id]).status \in TerminalStatuses)

\* the events of a timeline: pairs of a 'message' event and a 'decision' or
\* 'escalation' event, with an 'escalation' only at the very end
WellFormedEvents(events) ==
  /\ Len(events) % 2 = 0
  /\ \A i \in 1..Len(events) :
       /\ i % 2 = 1 => events[i].type = "message"
       /\ i % 2 = 0 => events[i].type \in {"decision", "escalation"}
       /\ events[i].type = "escalation" => i = Len(events)

\* the timeline's last event is an 'escalation'
EndsInEscalation(events) ==
  Len(events) > 0 /\ events[Len(events)].type = "escalation"

\* C26: every stored timeline has an even number of events, alternating a
\* 'message' event and a 'decision' or 'escalation' event, with at most one
\* 'escalation' event, which is then the last; finalState.escalated is true
\* exactly when the last event is an 'escalation', and finalState.resolved is
\* its negation.  The timeline a run stores has 2k events for the k executor
\* calls the run made, and its i-th 'message' event carries the message of
\* the i-th call.
C26_TimelineShape ==
  /\ [](\A id \in ScenarioIds :
          IsSome(timelines[id]) =>
            LET timeline == Get(timelines[id])
            IN /\ WellFormedEvents(timeline.events)
               /\ timeline.finalState.escalated <=> EndsInEscalation(timeline.events)
               /\ timeline.finalState.resolved = ~timeline.finalState.escalated)
  /\ [][/\ \A k \in 1..Len(runs), m \in ReplyMessages, e \in BOOLEAN :
            (/\ executorReturns(k, m, e, TraceOptions, EngineDurations)
             /\ Len(runs') < Len(runs))
            => LET timeline == Get(timelines'[runs[k].id])
               IN /\ Len(timeline.events) = 2 * Len(runs[k].calls)
                  /\ \A i \in 1..Len(runs[k].calls) :
                       timeline.events[2 * i - 1].data.message = runs[k].calls[i]
                  /\ timeline.finalState.escalated = e
        /\ \A id \in ScenarioIds :
            (/\ runSimulation(id, TraceOptions, EngineDurations)
             /\ Len(runs') = Len(runs))
            => /\ Get(timelines'[id]).events = <<>>
               /\ ~Get(timelines'[id]).finalState.escalated]_vars

\* a stored timeline of a run that made two executor calls and escalated at
\* the second: four events, the last one the only 'escalation'
C26_Witness ==
  \E id \in Registered :
    /\ IsSome(timelines[id])
    /\ Len(Get(timelines[id]).events) = 4
    /\ Get(timelines[id]).events[2].type = "decision"
    /\ Get(timelines[id]).events[4].type = "escalation"
    /\ Get(timelines[id]).finalState.escalated
    /\ ~Get(timelines[id]).finalState.resolved

\* the number of 'routing' events of a timeline
RoutingEvents(timeline) ==
  Cardinality({i \in 1..Len(timeline.events) : timeline.events[i].type = "routing"})

\* n is the integer nearest to sum / 4, a tie going up
NearestToQuarter(n, sum) == 4 * n - 2 <= sum /\ sum < 4 * n + 2

\* the verdict v is the one the judging rule gives for this scenario and
\* timeline
JudgingRule(v, scenario, timeline) ==
  LET d == v.dimensions
  IN /\ v.scenarioId = scenario.id
     /\ d.accuracy = (IF scenario.status = "failed" THEN 40 ELSE 100)
     /\ d.efficiency = (IF timeline.finalState.totalDuration > 5000 THEN 80 ELSE 100)
     /\ d.appropriateness = (IF RoutingEvents(timeline) > 3 THEN 55 ELSE 85)
     /\ d.escalationHandling =
          (IF /\ scenario.expectedOutcome.escalated
              /\ ~(IsSome(scenario.actualOutcome)
                     /\ Get(scenario.actualOutcome).escalated)
           THEN 20 ELSE 90)
     /\ NearestToQuarter(v.overallScore,
          d.accuracy + d.efficiency + d.appropriateness + d.escalationHandling)

\* C27: judgeScenario stores for the scenario a verdict with accuracy 40 if
\* the scenario's status is 'failed' and 100 otherwise, efficiency 80 if the
\* timeline's totalDuration is above 5000 ms and 100 otherwise,
\* appropriateness 55 if the timeline has more than 3 'routing' events and 85
\* otherwise, escalationHandling 20 if escalation was expected and the actual
\* outcome did not escalate and 90 otherwise, and overallScore the mean of
\* the four rounded to the nearest integer; the verdict takes the place of an
\* earlier verdict of the scenario, and the other verdicts stay.
C27_JudgeScenarioVerdict ==
  [][\A id \in ScenarioIds :
       judgeScenario(id) =>
         /\ IsSome(verdicts'[id])
         /\ JudgingRule(Get(verdicts'[id]), Scenario(id), Get(timelines[id]))
         /\ verdictOrder' = (IF IsSome(verdicts[id]) THEN verdictOrder
                             ELSE Append(verdictOrder, id))
         /\ \A other \in ScenarioIds \ {id} : verdicts'[other] = verdicts[other]]_vars

\* one scenario was run and judged, and run and judged once more: its one
\* stored verdict is that of the second judging
C27_Witness ==
  /\ Registered = {"S1"}
  /\ Stored = {}
  /\ nRun = 2
  /\ nJudge = 2
  /\ runs = <<>>
  /\ verdictOrder = <<"S1">>
  /\ Get(verdicts["S1"]).dimensions.accuracy = 40
  /\ Get(verdicts["S1"]).dimensions.efficiency = 80
  /\ Get(verdicts["S1"]).overallScore = 74
  /\ Scenario("S1").status = "failed"

\* how many entries of the list have this severity and name this scenario
IssueCount(issues, severity, id) ==
  Cardinality({i \in 1..Len(issues) :
                 /\ issues[i].severity = severity
                 /\ issues[i].affectedScenarios = <<id>>})

\* C28: the criticalIssues of the verdict a reachConsensus call stores have
\* exactly one entry of severity 'critical' for each stored verdict with
\* escalationHandling < 50 and exactly one entry of severity 'major' for each
\* stored verdict with accuracy < 50, each naming that verdict's scenario id,
\* and no other entry; no entry has severity 'minor'.
C28_CriticalIssues ==
  /\ [](\A sid \in Completed :
          \A i \in 1..Len(Verdict(sid).criticalIssues) :
            /\ Verdict(sid).criticalIssues[i].severity \in {"critical", "major"}
            /\ Len(Verdict(sid).criticalIssues[i].affectedScenarios) = 1)
  /\ [][\A sid \in SessionIds :
          reachConsensus(sid) =>
            LET issues == Get(Get(sessions'[sid]).finalVerdict).criticalIssues
                low(id, dimension) ==
                  IsSome(verdicts[id]) /\ Get(verdicts[id]).dimensions[dimension] < 50
            IN /\ \A id \in ScenarioIds :
                    /\ IssueCount(issues, "critical", id) =
                         Indicator(low(id, "escalationHandling"))
                    /\ IssueCount(issues, "major", id) =
                         Indicator(low(id, "accuracy"))
               /\ Len(issues) =
                    Cardinality({id \in ScenarioIds : low(id, "escalationHandling")})
                    + Cardinality({id \in ScenarioIds : low(id, "accuracy")})]_vars

\* a consensus verdict over two stored verdicts: one scenario missed its
\* escalation and failed (a critical and a major entry), the other failed
\* only (a major entry)
C28_Witness ==
  \E sid \in Completed :
    /\ Len(Verdict(sid).criticalIssues) = 3
    /\ IssueCount(Verdict(sid).criticalIssues, "critical", "S2") = 1
    /\ IssueCount(Verdict(sid).criticalIssues, "major", "S2") = 1
    /\ IssueCount(Verdict(sid).criticalIssues, "major", "S1") = 1

\* the list of improvement areas has an area of this name
HasArea(areas, name) == \E i \in 1..Len(areas) : areas[i].area = name

\* C29: for a non-empty list of verdicts of any size, the improvement areas
\* contain 'Intent Classification' exactly when the mean accuracy of the
\* verdicts is below 80, and 'Response Efficiency' exactly when their mean
\* efficiency is below 80; every area has target 85.
C29_AreasIffMeanBelow80 ==
  (IsSome(averaging) /\ IsSome(Get(averaging).improvementAreas)) =>
    LET list == Get(averaging).verdicts
        areas == Get(Get(averaging).improvementAreas)
        n == Len(list)
        accuracySum == sumOf([i \in 1..n |-> list[i].dimensions.accuracy])
        efficiencySum == sumOf([i \in 1..n |-> list[i].dimensions.efficiency])
    IN n > 0 =>
         /\ HasArea(areas, "Intent Classification") <=> accuracySum < 80 * n
         /\ HasArea(areas, "Response Efficiency") <=> efficiencySum < 80 * n
         /\ \A i \in 1..Len(areas) : areas[i].targetScore = 85

\* C30: whatever scenarios are registered and whatever their runs left, a
\* reachConsensus call on a known session id returns: it stores a verdict and
\* completes the session.
C30_ConsensusReturnsForKnownSession ==
  \A sid \in Stored : ENABLED reachConsensus(sid)

\* the scenario stored under id expects an escalation and its last completed
\* run ended without one
MissedEscalation(id) ==
  /\ IsSome(scenarios[id])
  /\ IsSome(timelines[id])
  /\ Scenario(id).expectedOutcome.escalated
  /\ IsSome(Scenario(id).actualOutcome)
  /\ ~Get(Scenario(id).actualOutcome).escalated

\* the stored verdict of id records a missed escalation
RecordsMissedEscalation(id) ==
  IsSome(verdicts[id]) /\ Get(verdicts[id]).dimensions.escalationHandling < 50

C33_EfficiencyAreaIffNoVerdict ==
  /\ [](\A id \in ScenarioIds :
          IsSome(verdicts[id]) => Get(verdicts[id]).dimensions.efficiency >= 80)
  /\ [][\A sid \in SessionIds :
          reachConsensus(sid) =>
            LET areas == Get(Get(sessions'[sid]).finalVerdict).improvementAreas
            IN /\ HasArea(areas, "Response Efficiency") <=> verdictOrder = <<>>
               /\ verdictOrder = <<>> =>
                    areas = << [area |-> "Intent Classification",
                                currentScore |-> 0, targetScore |-> 85],
                               [area |-> "Response Efficiency",
                                currentScore |-> 0, targetScore |-> 85] >>]_vars

\* a consensus over the one stored verdict, of a run that took more than
\* 5000 ms: efficiency 80, and no 'Response Efficiency' area
C33_Witness ==
  \E sid \in Completed :
    /\ nJudge = MaxJudge
    /\ verdictOrder = <<"S1">>
    /\ Get(verdicts["S1"]).dimensions.efficiency = 80
    /\ ~HasArea(Verdict(sid).improvementAreas, "Response Efficiency")

\* every registered scenario is 'pending', as POST /simulate/init leaves
\* them, and no run is in flight
AllPendingAgain ==
  /\ Registered # {}
  /\ \A id \in Registered : Scenario(id).status = "pending"
  /\ runs = <<>>

\* C34: when every registered scenario has been registered again with status
\* 'pending' and none has been run since, the verdict a reachConsensus call
\* stores has overallScore 0, no critical issues and no training signals.
C34_ReRegistrationResetsConsensus ==
  [][\A sid \in SessionIds :
       (AllPendingAgain /\ reachConsensus(sid)) =>
         LET v == Get(Get(sessions'[sid]).finalVerdict)
         IN /\ v.overallScore = 0
            /\ v.criticalIssues = <<>>
            /\ v.trainingSignals = <<>>]_vars

\* the part of C34 that does hold: such a consensus has no training signals
\* and a pass rate of 0, and with an empty verdict store its overallScore is 0
\* and it lists no issue
C34_FreshScenariosGiveNoSignals ==
  [][\A sid \in SessionIds :
       (AllPendingAgain /\ reachConsensus(sid)) =>
         LET v == Get(Get(sessions'[sid]).finalVerdict)
         IN /\ v.trainingSignals = <<>>
            /\ v.passRate = [num |-> 0, den |-> 1]
            /\ v.recommendation # "SHIP"
            /\ verdictOrder = <<>> =>
                 (v.overallScore = 0 /\ v.criticalIssues = <<>>)]_vars

\* a judgeAllScenarios call in such a state judges nothing: the verdict store
\* stays as it is
C34_JudgingPendingChangesNothing ==
  [][\A sid \in SessionIds :
       (AllPendingAgain /\ judgeAllScenarios(sid)) =>
         (verdicts' = verdicts /\ verdictOrder' = verdictOrder)]_vars

\* seq is a prefix of longer
IsPrefix(seq, longer) ==
  Len(seq) <= Len(longer) /\ SubSeq(longer, 1, Len(seq)) = seq

\* C35: in every state every stored verdict is of a scenario id that has a
\* stored timeline, and every stored timeline is of a scenario id that is
\* registered; and no step removes a scenario, a timeline or a verdict: an
\* id that has one keeps one, and the Maps' key orders only grow at the end.
C35_StoresNestAndOnlyGrow ==
  /\ [](\A id \in ScenarioIds :
          /\ IsSome(verdicts[id]) => IsSome(timelines[id])
          /\ IsSome(timelines[id]) => IsSome(scenarios[id]))
  /\ [](/\ \A i \in 1..Len(scenOrder) : IsSome(scenarios[scenOrder[i]])
        /\ \A i \in 1..Len(verdictOrder) : IsSome(verdicts[verdictOrder[i]])
        /\ Len(scenOrder) = Cardinality(Registered)
        /\ Len(verdictOrder) =
             Cardinality({id \in ScenarioIds : IsSome(verdicts[id])}))
  /\ [][/\ \A id \in ScenarioIds :
             /\ IsSome(scenarios[id]) => IsSome(scenarios'[id])
             /\ IsSome(timelines[id]) => IsSome(timelines'[id])
             /\ IsSome(verdicts[id]) => IsSome(verdicts'[id])
        /\ IsPrefix(scenOrder, scenOrder')
        /\ IsPrefix(verdictOrder, verdictOrder')]_vars

\* S1 was run and judged: its timeline and its verdict are stored; S2 is
\* registered and has neither
C35_Witness ==
  /\ Registered = {"S1", "S2"}
  /\ Scenario("S1").status \in {"passed", "failed"}
  /\ IsSome(timelines["S1"])
  /\ IsSome(verdicts["S1"])
  /\ ~IsSome(timelines["S2"])
  /\ ~IsSome(verdicts["S2"])

\* the expectations of a scenario that the claim says are ignored
ExpectationsOf(scenario) ==
  [agentSequence |-> scenario.expectedOutcome.agentSequence,
   toolsCalled |-> scenario.expectedOutcome.toolsCalled,
   intents |-> [i \in 1..Len(scenario.inputs) |->
                  scenario.inputs[i].expectedIntent],
   agents |-> [i \in 1..Len(scenario.inputs) |->
                 scenario.inputs[i].expectedAgent]]

\* a and b are registered, differ only in those expectations (and their
\* ids), and have both been run to the end
PairRun(a, b) ==
  /\ a # b
  /\ IsSome(scenarios[a]) /\ IsSome(scenarios[b])
  /\ Scenario(a).inputs # <<>>
  /\ Len(Scenario(a).inputs) = Len(Scenario(b).inputs)
  /\ \A i \in 1..Len(Scenario(a).inputs) :
       /\ Scenario(a).inputs[i].step = Scenario(b).inputs[i].step
       /\ Scenario(a).inputs[i].customerMessage =
            Scenario(b).inputs[i].customerMessage
  /\ Scenario(a).expectedOutcome.escalated = Scenario(b).expectedOutcome.escalated
  /\ Scenario(a).expectedOutcome.finalMessageContains =
       Scenario(b).expectedOutcome.finalMessageContains
  /\ IsSome(Scenario(a).actualOutcome) /\ IsSome(Scenario(b).actualOutcome)
  /\ IsSome(timelines[a]) /\ IsSome(timelines[b])
  /\ Scenario(a).status # "running" /\ Scenario(b).status # "running"

\* the two runs met the same responder: the same replies with the same
\* flags, the same trace length and the same elapsed time
SameResponder(a, b) ==
  /\ Get(timelines[a]).events = Get(timelines[b]).events
  /\ Get(Scenario(a).actualOutcome).finalMessage =
       Get(Scenario(b).actualOutcome).finalMessage
  /\ Get(Scenario(a).actualOutcome).trace = Get(Scenario(b).actualOutcome).trace
  /\ Get(timelines[a]).finalState.totalDuration =
       Get(timelines[b]).finalState.totalDuration

\* C36: two scenarios that differ only in expectedOutcome.agentSequence,
\* expectedOutcome.toolsCalled and their inputs' expectedIntent and
\* expectedAgent, run with the same responder, have the same status and the
\* same qualityScore, and their judge verdicts have the same overallScore and
\* dimensions; and every recorded actualOutcome has an empty agentSequence and
\* toolsCalled, every finalState an empty agentsInvolved and toolsUsed.
C36_ExpectationsAreIgnored ==
  /\ \A a, b \in ScenarioIds :
       (PairRun(a, b) /\ SameResponder(a, b)) =>
         /\ Scenario(a).status = Scenario(b).status
         /\ Get(timelines[a]).finalState.qualityScore =
              Get(timelines[b]).finalState.qualityScore
         /\ Get(timelines[a]).finalState = Get(timelines[b]).finalState
         /\ (IsSome(verdicts[a]) /\ IsSome(verdicts[b])) =>
              /\ Get(verdicts[a]).overallScore = Get(verdicts[b]).overallScore
              /\ Get(verdicts[a]).dimensions = Get(verdicts[b]).dimensions
  /\ \A id \in ScenarioIds :
       /\ (IsSome(scenarios[id]) /\ IsSome(Scenario(id).actualOutcome)) =>
            /\ Get(Scenario(id).actualOutcome).agentSequence = <<>>
            /\ Get(Scenario(id).actualOutcome).toolsCalled = <<>>
       /\ IsSome(timelines[id]) =>
            /\ Get(timelines[id]).finalState.agentsInvolved = <<>>
            /\ Get(timelines[id]).finalState.toolsUsed = <<>>

\* S1 expects no agent, tool or intent, S2 expects the agents 'order-agent'
\* and 'subscription-agent' and two tools; both were run with the same
\* replies, passed, scored 90 and got the same verdict
C36_Witness ==
  /\ PairRun("S1", "S2")
  /\ SameResponder("S1", "S2")
  /\ Scenario("S1").expectedOutcome.agentSequence = <<>>
  /\ Scenario("S2").expectedOutcome.agentSequence =
       <<"order-agent", "subscription-agent">>
  /\ ExpectationsOf(Scenario("S1")) # ExpectationsOf(Scenario("S2"))
  /\ Len(Get(timelines["S1"]).events) = 4
  /\ Scenario("S1").status = "passed"
  /\ Scenario("S2").status = "passed"
  /\ Get(timelines["S2"]).finalState.qualityScore = 90
  /\ IsSome(verdicts["S1"]) /\ IsSome(verdicts["S2"])
  /\ Get(verdicts["S1"]).dimensions = Get(verdicts["S2"]).dimensions

=============================================================================
